---- MODULE Spec2Model ----
(***************************************************************************)
(* Job application tracker: the entity store (JobStore), the email        *)
(* classification and matching engine (email monitor service) and the     *)
(* tool / gateway handlers that drive them.                                *)
(*                                                                         *)
(* Text is modelled as a tuple of one-character strings, so that           *)
(* lower-casing, splitting and substring search are computed the way the   *)
(* JavaScript string methods compute them.                                 *)
(***************************************************************************)
EXTENDS Integers, Sequences, FiniteSets, TLC

\* absent values: of a string-valued field, of an id, of a timestamp or a
\* number, and of a text
NULL == "null"

NoId == 0

NoTime == 0

NoNumber == -1

NoText == <<"undefined">>

\* ---------------------------------------------------------------------------
\* Strings
\* ---------------------------------------------------------------------------
UpperChars == <<"A", "B", "C", "D", "E", "F", "G", "H", "I", "J", "K", "L", "M",
                "N", "O", "P", "Q", "R", "S", "T", "U", "V", "W", "X", "Y", "Z">>

LowerChars == <<"a", "b", "c", "d", "e", "f", "g", "h", "i", "j", "k", "l", "m",
                "n", "o", "p", "q", "r", "s", "t", "u", "v", "w", "x", "y", "z">>

lowerMap ==
    [c \in {UpperChars[i] : i \in 1..Len(UpperChars)} |->
        LowerChars[CHOOSE i \in 1..Len(UpperChars) : UpperChars[i] = c]]

lowerChar(c) == IF c \in DOMAIN lowerMap THEN lowerMap[c] ELSE c

\* String.prototype.toLowerCase
toLowerCase(s) == [i \in 1..Len(s) |-> lowerChar(s[i])]

\* String.prototype.includes
includes(s, w) ==
    \E i \in 0..(Len(s) - Len(w)) : \A k \in 1..Len(w) : s[i + k] = w[k]

\* the characters the regular expression class \s accepts, as far as the
\* modelled alphabet has them
isWhitespace(c) == c \in {" ", "\t", "\n"}

RECURSIVE skipWhitespace(_, _)
skipWhitespace(s, i) ==
    IF i <= Len(s) /\ isWhitespace(s[i]) THEN skipWhitespace(s, i + 1) ELSE i

RECURSIVE splitWhitespaceFrom(_, _, _)
splitWhitespaceFrom(s, i, cur) ==
    IF i > Len(s) THEN <<cur>>
    ELSE IF isWhitespace(s[i])
         THEN <<cur>> \o splitWhitespaceFrom(s, skipWhitespace(s, i), <<>>)
         ELSE splitWhitespaceFrom(s, i + 1, Append(cur, s[i]))

\* s.split(/\s+/)
splitWhitespace(s) == splitWhitespaceFrom(s, 1, <<>>)

RECURSIVE splitFrom(_, _, _, _)
splitFrom(s, sep, i, cur) ==
    IF i > Len(s) THEN <<cur>>
    ELSE IF s[i] = sep
         THEN <<cur>> \o splitFrom(s, sep, i + 1, <<>>)
         ELSE splitFrom(s, sep, i + 1, Append(cur, s[i]))

\* s.split(sep) for a one-character separator
split(s, sep) == splitFrom(s, sep, 1, <<>>)

\* template literal `${a} ${b}`
joinWithSpace(a, b) == a \o <<" ">> \o b

\* ---------------------------------------------------------------------------
\* Keyword tables of the email monitor
\* ---------------------------------------------------------------------------
REJECTION_KEYWORDS ==
    { <<"u", "n", "f", "o", "r", "t", "u", "n", "a", "t", "e", "l", "y">>,
      <<"r", "e", "g", "r", "e", "t", " ", "t", "o", " ", "i", "n", "f", "o", "r", "m">>,
      <<"n", "o", "t", " ", "m", "o", "v", "i", "n", "g", " ", "f", "o", "r", "w", "a", "r", "d">>,
      <<"d", "e", "c", "i", "d", "e", "d", " ", "n", "o", "t", " ", "t", "o", " ", "p", "r", "o", "c", "e", "e", "d">>,
      <<"o", "t", "h", "e", "r", " ", "c", "a", "n", "d", "i", "d", "a", "t", "e", "s">>,
      <<"p", "o", "s", "i", "t", "i", "o", "n", " ", "h", "a", "s", " ", "b", "e", "e", "n", " ", "f", "i", "l", "l", "e", "d">>,
      <<"n", "o", "t", " ", "s", "e", "l", "e", "c", "t", "e", "d">>,
      <<"n", "o", "t", " ", "a", " ", "f", "i", "t">>,
      <<"p", "u", "r", "s", "u", "e", "d", " ", "o", "t", "h", "e", "r">>,
      <<"d", "e", "c", "i", "d", "e", "d", " ", "t", "o", " ", "m", "o", "v", "e", " ", "f", "o", "r", "w", "a", "r", "d", " ", "w", "i", "t", "h">> }

INTERVIEW_KEYWORDS ==
    { <<"s", "c", "h", "e", "d", "u", "l", "e", " ", "a", "n", " ", "i", "n", "t", "e", "r", "v", "i", "e", "w">>,
      <<"i", "n", "t", "e", "r", "v", "i", "e", "w", " ", "i", "n", "v", "i", "t", "a", "t", "i", "o", "n">>,
      <<"w", "o", "u", "l", "d", " ", "l", "i", "k", "e", " ", "t", "o", " ", "s", "p", "e", "a", "k">>,
      <<"s", "e", "t", " ", "u", "p", " ", "a", " ", "c", "a", "l", "l">>,
      <<"p", "h", "o", "n", "e", " ", "s", "c", "r", "e", "e", "n">>,
      <<"t", "e", "c", "h", "n", "i", "c", "a", "l", " ", "i", "n", "t", "e", "r", "v", "i", "e", "w">>,
      <<"o", "n", "-", "s", "i", "t", "e", " ", "i", "n", "t", "e", "r", "v", "i", "e", "w">>,
      <<"v", "i", "d", "e", "o", " ", "i", "n", "t", "e", "r", "v", "i", "e", "w">>,
      <<"m", "e", "e", "t", " ", "w", "i", "t", "h">>,
      <<"n", "e", "x", "t", " ", "s", "t", "e", "p", "s">>,
      <<"a", "v", "a", "i", "l", "a", "b", "i", "l", "i", "t", "y">> }

OFFER_KEYWORDS ==
    { <<"p", "l", "e", "a", "s", "e", "d", " ", "t", "o", " ", "o", "f", "f", "e", "r">>,
      <<"o", "f", "f", "e", "r", " ", "l", "e", "t", "t", "e", "r">>,
      <<"j", "o", "b", " ", "o", "f", "f", "e", "r">>,
      <<"e", "m", "p", "l", "o", "y", "m", "e", "n", "t", " ", "o", "f", "f", "e", "r">>,
      <<"c", "o", "m", "p", "e", "n", "s", "a", "t", "i", "o", "n", " ", "p", "a", "c", "k", "a", "g", "e">>,
      <<"s", "t", "a", "r", "t", " ", "d", "a", "t", "e">>,
      <<"w", "e", " ", "w", "o", "u", "l", "d", " ", "l", "i", "k", "e", " ", "t", "o", " ", "e", "x", "t", "e", "n", "d">> }

\* ---------------------------------------------------------------------------
\* Bounds of the model and program constants
\* ---------------------------------------------------------------------------
MaxJobs == 2
MaxApps == 2
MaxThreads == 2
MaxHistory == 3
MaxMailHistory == 4
MaxMessages == 2
MaxClock == 2
MaxResumes == 4

\* listJobs / listApplications: params?.limit ?? 100
DefaultLimit == 100

ApplicationStatuses ==
    {"pending", "submitted", "viewed", "rejected", "interview", "offer",
     "withdrawn", "closed"}

VARIABLES
    db,           \* the SQLite tables, one field per table, and the resumes
                  \* directory (files: the resumes whose file is on disk)
    now,          \* Date.now()
    foreignKeys,  \* whether the SQLite build enforces REFERENCES clauses
    hook,         \* what the message_received hook did with the last event
    reply,        \* what the last tool, gateway or scanner call answered
    pending       \* the calls and events in flight, each with its position

vars == <<db, now, foreignKeys, hook, reply, pending>>

\* ---------------------------------------------------------------------------
\* JobStore
\* ---------------------------------------------------------------------------
\* randomUUID(): an id no row of the table has.  Rows of resumes can be
\* deleted, so their ids are counted in resume_ids and never used twice.
newId(table) ==
    CHOOSE i \in 1..(Cardinality(DOMAIN table) + 1) : i \notin DOMAIN table

EmptyTable == [i \in {} |-> NULL]

insert(table, id, row) == [i \in DOMAIN table \cup {id} |-> IF i = id THEN row ELSE table[i]]

emptyDb ==
    [jobs |-> EmptyTable,
     applications |-> EmptyTable,
     email_threads |-> EmptyTable,
     resumes |-> EmptyTable,
     resume_ids |-> 0,
     files |-> {},
     application_history |-> <<>>]

createJob(d, job, t) ==
    [d EXCEPT !.jobs = insert(@, newId(@),
        [externalId |-> job.externalId,
         source |-> job.source,
         company |-> job.company,
         discoveredAt |-> t,
         status |-> "new"])]

\* getJob(id) finds a row
hasJob(d, id) == id \in DOMAIN d.jobs

\* a lookup that finds nothing
getJobByExternalId_none(d, externalId, source) == NoId

\* the id of the row found, or NoId
getJobByExternalId(d, externalId, source) ==
    LET rows == {j \in DOMAIN d.jobs :
                    d.jobs[j].externalId = externalId /\ d.jobs[j].source = source}
    IN IF rows = {} THEN NoId ELSE CHOOSE j \in rows : \A k \in rows : j <= k

updateJobStatus(d, id, status) ==
    IF id \in DOMAIN d.jobs
    THEN [d EXCEPT !.jobs[id].status = status]
    ELSE d

\* a plausible slip: a new application stamped as applied
createApplication_stamped(d, jobId, t) ==
    [d EXCEPT !.applications = insert(@, newId(@),
        [jobId |-> jobId,
         status |-> "pending",
         appliedAt |-> t,
         updatedAt |-> t])]

createApplication(d, jobId, t) ==
    [d EXCEPT !.applications = insert(@, newId(@),
        [jobId |-> jobId,
         status |-> "pending",
         appliedAt |-> NoTime,
         updatedAt |-> t])]

\* getApplication(id) finds a row
hasApplication(d, id) == id \in DOMAIN d.applications

\* a lookup that finds nothing
getApplicationByJobId_none(d, jobId) == NoId

\* the id of the row found, or NoId
getApplicationByJobId(d, jobId) ==
    LET rows == {a \in DOMAIN d.applications : d.applications[a].jobId = jobId}
    IN IF rows = {} THEN NoId ELSE CHOOSE a \in rows : \A b \in rows : a <= b

\* company LIKE '%pattern%', for a pattern of letters: SQLite's LIKE ignores
\* the case of ASCII letters
like(text, pattern) == includes(toLowerCase(text), toLowerCase(pattern))

\* the rows of a table that pass the filters, most recent first by the column
\* sortedBy, rows with equal keys as rowOrder ranks them, from offset on, at
\* most limit of them
selectRows(table, rows, sortedBy, limit, offset, rowOrder) ==
    LET before(a, b) ==
            \/ table[a][sortedBy] > table[b][sortedBy]
            \/ /\ table[a][sortedBy] = table[b][sortedBy]
               /\ rowOrder[a] < rowOrder[b]
        rank == [a \in rows |-> Cardinality({b \in rows : before(b, a)})] @@ <<>>
        sorted == [i \in 1..Cardinality(rows) |-> CHOOSE a \in rows : rank[a] = i - 1]
        lim == IF limit = NoNumber THEN DefaultLimit ELSE limit
        off == IF offset = NoNumber THEN 0 ELSE offset
        last == IF off + lim < Len(sorted) THEN off + lim ELSE Len(sorted)
    IN SubSeq(sorted, off + 1, last)

\* a plausible slip: OFFSET left out of the statement
listJobs_noOffset(d, status, source, company, limit, offset, rowOrder) ==
    selectRows(d.jobs,
               {j \in DOMAIN d.jobs :
                    /\ status = NULL \/ d.jobs[j].status = status
                    /\ source = NULL \/ d.jobs[j].source = source
                    /\ company = NoText \/ like(d.jobs[j].company, company)},
               "discoveredAt", limit, NoNumber, rowOrder)

\* ORDER BY discovered_at DESC LIMIT ? OFFSET ?
listJobs(d, status, source, company, limit, offset, rowOrder) ==
    selectRows(d.jobs,
               {j \in DOMAIN d.jobs :
                    /\ status = NULL \/ d.jobs[j].status = status
                    /\ source = NULL \/ d.jobs[j].source = source
                    /\ company = NoText \/ like(d.jobs[j].company, company)},
               "discoveredAt", limit, offset, rowOrder)

\* ORDER BY updated_at DESC LIMIT ? OFFSET ?  Rows with equal updated_at come
\* in an order SQL leaves open: rowOrder ranks them.  (rank @@ <<>> is rank,
\* tabulated once.)
listApplications(d, status, limit, offset, rowOrder) ==
    LET rows == {a \in DOMAIN d.applications :
                    status = NULL \/ d.applications[a].status = status}
        before(a, b) ==
            \/ d.applications[a].updatedAt > d.applications[b].updatedAt
            \/ /\ d.applications[a].updatedAt = d.applications[b].updatedAt
               /\ rowOrder[a] < rowOrder[b]
        rank == [a \in rows |-> Cardinality({b \in rows : before(b, a)})] @@ <<>>
        sorted == [i \in 1..Cardinality(rows) |-> CHOOSE a \in rows : rank[a] = i - 1]
        lim == IF limit = NoNumber THEN DefaultLimit ELSE limit
        off == IF offset = NoNumber THEN 0 ELSE offset
        last == IF off + lim < Len(sorted) THEN off + lim ELSE Len(sorted)
    IN SubSeq(sorted, off + 1, last)

\* a plausible slip: applied_at = ?, whatever it held
COALESCE_overwrite(a, b) == b

\* applied_at = COALESCE(applied_at, ?)
COALESCE(a, b) == IF a # NoTime THEN a ELSE b

\* updateApplicationStatus's UPDATE statement
updateApplicationRow(d, id, status, t) ==
    IF ~hasApplication(d, id) THEN d
    ELSE [d EXCEPT
            !.applications[id] =
                [@ EXCEPT !.status = status,
                          !.updatedAt = t,
                          !.appliedAt = COALESCE(@, IF status = "submitted" THEN t ELSE NoTime)]]

\* updateApplicationStatus's INSERT INTO application_history
insertHistoryRow(d, id, oldStatus, newStatus, t, notes) ==
    [d EXCEPT !.application_history =
        Append(@, [applicationId |-> id,
                   oldStatus |-> oldStatus,
                   newStatus |-> newStatus,
                   changedAt |-> t,
                   notes |-> notes])]

\* a plausible slip: applied_at = ? without COALESCE, stamped on every submission
updateApplicationStatus_restamp(d, id, status, notes, t) ==
    IF ~hasApplication(d, id) THEN d
    ELSE LET app == d.applications[id]
         IN [d EXCEPT
               !.applications[id] =
                   [@ EXCEPT !.status = status,
                             !.updatedAt = t,
                             !.appliedAt = IF status = "submitted" THEN t ELSE @],
               !.application_history =
                   Append(@, [applicationId |-> id,
                              oldStatus |-> app.status,
                              newStatus |-> status,
                              changedAt |-> t,
                              notes |-> notes])]

\* a plausible slip: the history record written before the row is looked up
updateApplicationStatus_logFirst(d, id, status, notes, t) ==
    IF ~hasApplication(d, id)
    THEN insertHistoryRow(d, id, NULL, status, t, notes)
    ELSE insertHistoryRow(updateApplicationRow(d, id, status, t),
                          id, d.applications[id].status, status, t, notes)

\* a plausible slip: one history row per application, the last change kept
updateApplicationStatus_replace(d, id, status, notes, t) ==
    IF ~hasApplication(d, id) THEN d
    ELSE LET kept == SelectSeq(d.application_history, LAMBDA r : r.applicationId # id)
         IN insertHistoryRow([updateApplicationRow(d, id, status, t)
                                 EXCEPT !.application_history = kept],
                             id, d.applications[id].status, status, t, notes)

updateApplicationStatus(d, id, status, notes, t) ==
    IF ~hasApplication(d, id) THEN d
    ELSE LET app == d.applications[id]
         IN [d EXCEPT
               !.applications[id] =
                   [@ EXCEPT !.status = status,
                             !.updatedAt = t,
                             !.appliedAt = COALESCE(@, IF status = "submitted" THEN t ELSE NoTime)],
               !.application_history =
                   Append(@, [applicationId |-> id,
                              oldStatus |-> app.status,
                              newStatus |-> status,
                              changedAt |-> t,
                              notes |-> notes])]

\* a plausible slip: a new thread counted from 0
createEmailThread_zero(d, applicationId, gmailThreadId, t) ==
    [d EXCEPT !.email_threads = insert(@, newId(@),
        [applicationId |-> applicationId,
         gmailThreadId |-> gmailThreadId,
         lastMessageAt |-> t,
         status |-> "active",
         messageCount |-> 0])]

createEmailThread(d, applicationId, gmailThreadId, t) ==
    [d EXCEPT !.email_threads = insert(@, newId(@),
        [applicationId |-> applicationId,
         gmailThreadId |-> gmailThreadId,
         lastMessageAt |-> t,
         status |-> "active",
         messageCount |-> 1])]

\* what a JavaScript condition makes of an optional string: undefined and the
\* empty string are falsy
truthy(text) == text # NULL /\ text # ""

\* the id of the row found, or NoId
getEmailThreadByGmailId(d, gmailThreadId) ==
    LET rows == {x \in DOMAIN d.email_threads :
                    d.email_threads[x].gmailThreadId = gmailThreadId}
    IN IF rows = {} THEN NoId ELSE CHOOSE x \in rows : \A y \in rows : x <= y

updateEmailThread(d, id, status, messageCount, lastMessageAt) ==
    IF id \in DOMAIN d.email_threads
    THEN [d EXCEPT !.email_threads[id] =
            [@ EXCEPT !.status = status,
                      !.messageCount = messageCount,
                      !.lastMessageAt = lastMessageAt]]
    ELSE d

createResume(d, isDefault) ==
    LET id == d.resume_ids + 1
        cleared == IF isDefault
                   THEN [r \in DOMAIN d.resumes |-> [d.resumes[r] EXCEPT !.isDefault = FALSE]]
                   ELSE d.resumes
    IN [d EXCEPT !.resumes = insert(cleared, id, [isDefault |-> isDefault]),
                 !.resume_ids = id]

\* getResume(id) finds a row
hasResume(d, id) == id \in DOMAIN d.resumes

\* SELECT * FROM resumes WHERE is_default = 1, the first row: its id, or NoId
getDefaultResume(d) ==
    LET rows == {r \in DOMAIN d.resumes : d.resumes[r].isDefault}
    IN IF rows = {} THEN NoId ELSE CHOOSE r \in rows : \A q \in rows : r <= q

listResumes(d) == DOMAIN d.resumes

\* a plausible slip: an id that names no resume leaves the table alone
setDefaultResume_guarded(d, id) ==
    IF id \notin DOMAIN d.resumes THEN d
    ELSE [d EXCEPT !.resumes =
            [r \in DOMAIN @ |-> [@[r] EXCEPT !.isDefault = (r = id)]]]

\* a plausible slip: the clearing UPDATE left out
setDefaultResume_noClear(d, id) ==
    [d EXCEPT !.resumes =
        [r \in DOMAIN @ |-> [@[r] EXCEPT !.isDefault = (@ \/ r = id)]]]

setDefaultResume(d, id) ==
    [d EXCEPT !.resumes =
        [r \in DOMAIN @ |-> [@[r] EXCEPT !.isDefault = (r = id)]]]

\* setDefaultResume's first statement: UPDATE resumes SET is_default = 0
clearDefaultResumes(d) ==
    [d EXCEPT !.resumes = [r \in DOMAIN @ |-> [@[r] EXCEPT !.isDefault = FALSE]]]

\* setDefaultResume's second statement:
\* UPDATE resumes SET is_default = 1 WHERE id = ?
markDefaultResume(d, id) ==
    [d EXCEPT !.resumes =
        [r \in DOMAIN @ |-> [@[r] EXCEPT !.isDefault = (@ \/ r = id)]]]

deleteResume(d, id) ==
    [d EXCEPT !.resumes = [r \in DOMAIN @ \ {id} |-> @[r]]]

\* copyFileSync(filePath, destPath): the file of the resume about to be stored
copyFileSync(d) == [d EXCEPT !.files = @ \cup {d.resume_ids + 1}]

\* existsSync(resume.filePath)
existsSync(d, id) == id \in d.files

\* unlinkSync(resume.filePath) that returns
unlinkSync(d, id) == [d EXCEPT !.files = @ \ {id}]

\* a plausible slip: the error of unlinkSync reported, the delete given up
unlinkCaught_rethrow(failed) == ~failed

\* try { unlinkSync(...) } catch { }: the delete goes on, failed or not
unlinkCaught(failed) == TRUE

\* ---------------------------------------------------------------------------
\* JobStore statistics
\* ---------------------------------------------------------------------------
\* SELECT COUNT(*) FROM table WHERE status = ?
countStatus(table, status) ==
    Cardinality({i \in DOMAIN table : table[i].status = status})

\* a plausible slip: one per group, the groups counted and not their rows
groupCount_distinct(table, column) ==
    [v \in {table[i][column] : i \in DOMAIN table} |-> 1]

\* SELECT column, COUNT(*) FROM table GROUP BY column, as the record built
\* from its rows
groupCount(table, column) ==
    [v \in {table[i][column] : i \in DOMAIN table} |->
        Cardinality({i \in DOMAIN table : table[i][column] = v})]

getStats(d) ==
    [totalJobs |-> Cardinality(DOMAIN d.jobs),
     newJobs |-> countStatus(d.jobs, "new"),
     appliedJobs |-> countStatus(d.jobs, "applied"),
     pendingApplications |-> countStatus(d.applications, "pending"),
     interviewsScheduled |-> countStatus(d.applications, "interview"),
     offersReceived |-> countStatus(d.applications, "offer"),
     rejections |-> countStatus(d.applications, "rejected"),
     bySource |-> groupCount(d.jobs, "source"),
     byStatus |-> groupCount(d.jobs, "status"),
     applicationsByStatus |-> groupCount(d.applications, "status")]

\* days * 24 * 60 * 60 * 1000, in seconds: the timestamps of the statistics
\* are counted in seconds, the integers of the checker hold 24 days of
\* milliseconds
DayMs == 24 * 60 * 60

isLeap(y) == (y % 4 = 0 /\ y % 100 # 0) \/ y % 400 = 0

daysInYear(y) == IF isLeap(y) THEN 366 ELSE 365

daysInMonth(y, m) ==
    CASE m = 2 -> IF isLeap(y) THEN 29 ELSE 28
      [] m \in {4, 6, 9, 11} -> 30
      [] OTHER -> 31

\* the calendar date, <<year, month, day>>, n days after the first of month m
\* of year y
RECURSIVE civil(_, _, _)
civil(n, y, m) ==
    IF m = 1 /\ n >= daysInYear(y) THEN civil(n - daysInYear(y), y + 1, 1)
    ELSE IF n >= daysInMonth(y, m) THEN civil(n - daysInMonth(y, m), y, m + 1)
    ELSE <<y, m, n + 1>>

Digits == <<"0", "1", "2", "3", "4", "5", "6", "7", "8", "9">>

\* n in decimal, width digits, zero-padded
RECURSIVE padded(_, _)
padded(n, width) ==
    IF width = 0 THEN <<>>
    ELSE Append(padded(n \div 10, width - 1), Digits[(n % 10) + 1])

\* date(ms / 1000, 'unixepoch'): the UTC date as YYYY-MM-DD
date(seconds) ==
    LET ymd == civil(seconds \div 86400, 1970, 1)
    IN padded(ymd[1], 4) \o <<"-">> \o padded(ymd[2], 2) \o <<"-">> \o padded(ymd[3], 2)

\* the place of a character of a date in the collation order
charRank(c) ==
    IF c = "-" THEN 0 ELSE CHOOSE i \in 1..10 : Digits[i] = c

\* a.localeCompare(b) < 0, for the texts of two dates
RECURSIVE localeBefore(_, _)
localeBefore(a, b) ==
    IF b = <<>> THEN FALSE
    ELSE IF a = <<>> THEN TRUE
    ELSE IF charRank(Head(a)) # charRank(Head(b))
    THEN charRank(Head(a)) < charRank(Head(b))
    ELSE localeBefore(Tail(a), Tail(b))

\* a plausible slip: the rows after the cutoff, the one at the cutoff left out
sinceCutoff_strict(t, startTime) == t > startTime

\* WHERE discovered_at >= ?, WHERE applied_at IS NOT NULL AND applied_at >= ?
sinceCutoff(t, startTime) == t # NoTime /\ t >= startTime

\* SELECT date(...), COUNT(*) ... GROUP BY date(...): the dates of the rows
\* and the count of each
perDay(times) ==
    [day \in {date(t) : t \in {times[i] : i \in DOMAIN times}} |->
        Cardinality({i \in DOMAIN times : date(times[i]) = day})]

getTimeline(d, days, t) ==
    LET startTime == t - days * DayMs
        jobRows == {j \in DOMAIN d.jobs : sinceCutoff(d.jobs[j].discoveredAt, startTime)}
        appRows == {a \in DOMAIN d.applications :
                        sinceCutoff(d.applications[a].appliedAt, startTime)}
        jobsPerDay == perDay([j \in jobRows |-> d.jobs[j].discoveredAt]) @@ <<>>
        appsPerDay == perDay([a \in appRows |-> d.applications[a].appliedAt]) @@ <<>>
        timeline ==
            [day \in DOMAIN jobsPerDay \cup DOMAIN appsPerDay |->
                [date |-> day,
                 jobsDiscovered |->
                    IF day \in DOMAIN jobsPerDay THEN jobsPerDay[day] ELSE 0,
                 applicationsSubmitted |->
                    IF day \in DOMAIN appsPerDay THEN appsPerDay[day] ELSE 0,
                 responsesReceived |-> 0]]
        rank == [day \in DOMAIN timeline |->
                    Cardinality({other \in DOMAIN timeline : localeBefore(other, day)})] @@ <<>>
    IN [i \in 1..Cardinality(DOMAIN timeline) |->
            timeline[CHOOSE day \in DOMAIN timeline : rank[day] = i - 1]]

\* ---------------------------------------------------------------------------
\* Email monitor: matching, classification, transition policy
\* ---------------------------------------------------------------------------
isGmailNotification(event) == event.from # NoText /\ event.subject # NoText

\* fromLower.split("@")[1]?.split(".")[0], NoText for undefined
senderDomainOf(fromLower) ==
    LET parts == split(fromLower, "@")
    IN IF Len(parts) >= 2 THEN split(parts[2], ".")[1] ELSE NoText

\* a plausible slip: word.length >= 3 in place of word.length > 3
companyMatches_threeLetters(company, email) ==
    LET companyWords == splitWhitespace(toLowerCase(company))
    IN \E i \in 1..Len(companyWords) :
          /\ Len(companyWords[i]) >= 3
          /\ \/ includes(toLowerCase(email.from), companyWords[i])
             \/ includes(toLowerCase(email.subject), companyWords[i])

\* the company test in the loop over allApps: matchesSender || matchesSubject
companyMatches(company, email) ==
    LET companyLower == toLowerCase(company)
        fromLower == toLowerCase(email.from)
        subjectLower == toLowerCase(email.subject)
        senderDomain == senderDomainOf(fromLower)
        companyWords == splitWhitespace(companyLower)
        matchesSender ==
            \E i \in 1..Len(companyWords) :
                /\ Len(companyWords[i]) > 3
                /\ \/ includes(fromLower, companyWords[i])
                   \/ senderDomain # NoText /\ includes(senderDomain, companyWords[i])
        matchesSubject ==
            \E i \in 1..Len(companyWords) :
                /\ Len(companyWords[i]) > 3
                /\ includes(subjectLower, companyWords[i])
    IN matchesSender \/ matchesSubject

\* the body of the loop over allApps; matches is companyMatches, tabulated
applicationMatches(d, appId, email, matches) ==
    IF ~hasJob(d, d.applications[appId].jobId) THEN FALSE
    ELSE matches[d.jobs[d.applications[appId].jobId].company, email]

\* a plausible slip: concluded applications listed as candidates too
candidateStatuses_concluded == <<"submitted", "interview", "offer", "rejected">>

\* the statuses matchEmailToApplication lists, in the order it lists them
candidateStatuses == <<"submitted", "interview">>

RECURSIVE listAll(_, _, _, _)
listAll(d, statuses, i, rowOrder) ==
    IF i > Len(statuses) THEN <<>>
    ELSE listApplications(d, statuses[i], NoNumber, NoNumber, rowOrder)
            \o listAll(d, statuses, i + 1, rowOrder)

\* a plausible slip: the first candidate returned when none matches
matchEmailToApplication_fallback(d, email, rowOrder, matches) ==
    LET allApps == listAll(d, candidateStatuses, 1, rowOrder)
        hits == {i \in 1..Len(allApps) : applicationMatches(d, allApps[i], email, matches)}
        pick == IF hits = {} THEN 1..Len(allApps) ELSE hits
    IN IF pick = {} THEN [applicationId |-> NoId, jobId |-> NoId, currentStatus |-> NULL]
       ELSE LET app == allApps[CHOOSE i \in pick : \A j \in pick : i <= j]
            IN [applicationId |-> app,
                jobId |-> d.applications[app].jobId,
                currentStatus |-> d.applications[app].status]

matchEmailToApplication(d, email, rowOrder, matches) ==
    LET allApps == listAll(d, candidateStatuses, 1, rowOrder)
        hits == {i \in 1..Len(allApps) : applicationMatches(d, allApps[i], email, matches)}
    IN IF hits = {} THEN [applicationId |-> NoId, jobId |-> NoId, currentStatus |-> NULL]
       ELSE LET app == allApps[CHOOSE i \in hits : \A j \in hits : i <= j]
            IN [applicationId |-> app,
                jobId |-> d.applications[app].jobId,
                currentStatus |-> d.applications[app].status]

someIncluded(keywords, content) == \E kw \in keywords : includes(content, kw)

\* a plausible slip: the rejection keywords checked before the interview keywords
classifyEmailResponse_rejectionFirst(email) ==
    LET content == toLowerCase(joinWithSpace(email.subject, email.body))
    IN IF someIncluded(OFFER_KEYWORDS, content) THEN "offer"
       ELSE IF someIncluded(REJECTION_KEYWORDS, content) THEN "rejection"
       ELSE IF someIncluded(INTERVIEW_KEYWORDS, content) THEN "interview"
       ELSE "generic"

classifyEmailResponse(email) ==
    LET content == toLowerCase(joinWithSpace(email.subject, email.body))
    IN IF someIncluded(OFFER_KEYWORDS, content) THEN "offer"
       ELSE IF someIncluded(INTERVIEW_KEYWORDS, content) THEN "interview"
       ELSE IF someIncluded(REJECTION_KEYWORDS, content) THEN "rejection"
       ELSE "generic"

\* a plausible slip: the guard of the generic case left out
responseTypeToStatus_viewed(responseType, currentStatus) ==
    CASE responseType = "offer" -> "offer"
      [] responseType = "interview" ->
            IF currentStatus # "interview" /\ currentStatus # "offer"
            THEN "interview" ELSE NULL
      [] responseType = "rejection" -> "rejected"
      [] responseType = "generic" -> "viewed"
      [] OTHER -> NULL

responseTypeToStatus(responseType, currentStatus) ==
    CASE responseType = "offer" -> "offer"
      [] responseType = "interview" ->
            IF currentStatus # "interview" /\ currentStatus # "offer"
            THEN "interview" ELSE NULL
      [] responseType = "rejection" -> "rejected"
      [] responseType = "generic" ->
            IF currentStatus = "submitted" THEN "viewed" ELSE NULL
      [] OTHER -> NULL

classifiedNotes(responseType) ==
    CASE responseType = "offer" -> "Email response classified as: offer"
      [] responseType = "interview" -> "Email response classified as: interview"
      [] responseType = "rejection" -> "Email response classified as: rejection"
      [] OTHER -> "Email response classified as: generic"

\* a plausible slip: the status written for every matched email, the current
\* one when the policy names none
applyResponse_unguarded(d, application, responseType, t) ==
    LET newStatus == responseTypeToStatus(responseType, application.currentStatus)
    IN updateApplicationStatus(d, application.applicationId,
                               IF newStatus # NULL THEN newStatus
                               ELSE application.currentStatus,
                               classifiedNotes(responseType), t)

\* the store after the status update of processEmailNotification
applyResponse(d, application, responseType, t) ==
    LET newStatus == responseTypeToStatus(responseType, application.currentStatus)
    IN IF newStatus # NULL /\ newStatus # application.currentStatus
       THEN updateApplicationStatus(d, application.applicationId, newStatus,
                                    classifiedNotes(responseType), t)
       ELSE d

\* a plausible slip: messageCount written back as read
upsertThread_sameCount(d, application, email, responseType, t) ==
    LET existingThread ==
            IF truthy(email.gmailThreadId)
            THEN getEmailThreadByGmailId(d, email.gmailThreadId)
            ELSE NoId
    IN IF existingThread # NoId
       THEN updateEmailThread(d, existingThread,
                IF responseType = "interview" THEN "awaiting_response" ELSE "active",
                d.email_threads[existingThread].messageCount,
                t)
       ELSE createEmailThread(d, application.applicationId, email.gmailThreadId, t)

\* the store after the thread upsert of processEmailNotification
upsertThread(d, application, email, responseType, t) ==
    LET existingThread ==
            IF truthy(email.gmailThreadId)
            THEN getEmailThreadByGmailId(d, email.gmailThreadId)
            ELSE NoId
    IN IF existingThread # NoId
       THEN updateEmailThread(d, existingThread,
                IF responseType = "interview" THEN "awaiting_response" ELSE "active",
                d.email_threads[existingThread].messageCount + 1,
                t)
       ELSE createEmailThread(d, application.applicationId, email.gmailThreadId, t)

\* the store and the outcome after one inbound email; matches and classes are
\* companyMatches and classifyEmailResponse, tabulated over the inputs
processEmailNotification(d, email, rowOrder, t, matches, classes) ==
    LET application == matchEmailToApplication(d, email, rowOrder, matches)
    IN IF application.applicationId = NoId
       THEN [db |-> d, matched |-> NoId, responseType |-> NULL]
       ELSE LET responseType == classes[email]
            IN [db |-> upsertThread(applyResponse(d, application, responseType, t),
                                    application, email, responseType, t),
                matched |-> application.applicationId,
                responseType |-> responseType]

\* ---------------------------------------------------------------------------
\* Inputs
\* ---------------------------------------------------------------------------
AcmeCorp == <<"A", "c", "m", "e", " ", "C", "o", "r", "p">>

IBM == <<"I", "B", "M">>

FromAcmeHR == <<"H", "R", "@", "A", "c", "m", "e", "C", "o", "r", "p", ".", "c", "o", "m">>

FromAcmeLocal == <<"a", "c", "m", "e", ".", "j", "o", "b", "s", "@", "m", "a", "i", "l", ".", "c", "o", "m">>

FromRecruiter == <<"j", "o", "b", "s", "@", "m", "a", "i", "l", ".", "c", "o", "m">>

FromIBM == <<"j", "o", "b", "s", "@", "i", "b", "m", ".", "c", "o", "m">>

SubjectNextSteps == <<"N", "e", "x", "t", " ", "s", "t", "e", "p", "s", " ", "f", "o", "r", " ", "y", "o", "u", "r", " ", "a", "p", "p", "l", "i", "c", "a", "t", "i", "o", "n">>

SubjectYourApplication == <<"Y", "o", "u", "r", " ", "a", "p", "p", "l", "i", "c", "a", "t", "i", "o", "n">>

SubjectReceived == <<"A", "p", "p", "l", "i", "c", "a", "t", "i", "o", "n", " ", "r", "e", "c", "e", "i", "v", "e", "d">>

SubjectAcmeRole == <<"R", "o", "l", "e", " ", "a", "t", " ", "A", "C", "M", "E">>

SubjectIBM == <<"I", "B", "M", " ", "c", "a", "r", "e", "e", "r", "s">>

BodyEmpty == <<>>

BodyThanks == <<"T", "h", "a", "n", "k", "s">>

BodyRejection == <<"U", "n", "f", "o", "r", "t", "u", "n", "a", "t", "e", "l", "y", " ", "w", "e", " ", "c", "h", "o", "s", "e", " ", "o", "t", "h", "e", "r", " ", "c", "a", "n", "d", "i", "d", "a", "t", "e", "s">>

BodyOfferAndRegret == <<"W", "e", " ", "r", "e", "g", "r", "e", "t", " ", "t", "o", " ", "i", "n", "f", "o", "r", "m", " ", "y", "o", "u", " ", "t", "h", "e", " ", "s", "t", "a", "r", "t", " ", "d", "a", "t", "e", " ", "m", "o", "v", "e", "d">>

\* an id no row has
UnknownId == -1

\* listings a job source returns: RawJobListing, externalId and company
Listings ==
    { [externalId |-> "e1", source |-> "indeed", company |-> AcmeCorp],
      [externalId |-> "e2", source |-> "indeed", company |-> AcmeCorp],
      [externalId |-> "e3", source |-> "indeed", company |-> IBM] }

TitleEngineer == <<"E", "n", "g", "i", "n", "e", "e", "r">>

Remote == <<"R", "e", "m", "o", "t", "e">>

Austin == <<"A", "u", "s", "t", "i", "n">>

\* listings the job boards return to the scanner and to job_search: the same
\* posting on two boards, a second posting, and one of an excluded company
ScanListings ==
    { [externalId |-> "e1", source |-> "indeed", company |-> AcmeCorp,
       title |-> TitleEngineer, location |-> Remote, description |-> <<>>],
      [externalId |-> "e2", source |-> "indeed", company |-> AcmeCorp,
       title |-> TitleEngineer, location |-> Austin, description |-> <<>>],
      [externalId |-> "e3", source |-> "indeed", company |-> IBM,
       title |-> TitleEngineer, location |-> Remote, description |-> <<>>],
      [externalId |-> "e1", source |-> "linkedin", company |-> AcmeCorp,
       title |-> TitleEngineer, location |-> Austin, description |-> <<>>] }

\* the longest result of one search
MaxBatch == 2

JobBoards == {"indeed", "linkedin"}

\* what one search of a source can return, a listing twice included
Batches ==
    [source \in JobBoards |->
        LET found == {l \in ScanListings : l.source = source}
        IN UNION {[1..n -> found] : n \in 0..MaxBatch}]

\* the plugin configuration: the default one, which names no title, and one
\* that searches two boards for one title and excludes a company
ScanConfigs ==
    { [defaultJobBoards |-> <<"indeed", "linkedin">>,
       preferences |-> [titles |-> <<>>, locations |-> <<>>, remoteOnly |-> FALSE,
                        excludeCompanies |-> {}, keywords |-> {},
                        excludeKeywords |-> {}]],
      [defaultJobBoards |-> <<"indeed", "linkedin">>,
       preferences |-> [titles |-> <<TitleEngineer>>, locations |-> <<>>,
                        remoteOnly |-> FALSE,
                        excludeCompanies |-> {<<"i", "b", "m">>},
                        keywords |-> {},
                        excludeKeywords |-> {}]] }

TitleSeniorEngineer ==
    <<"S", "e", "n", "i", "o", "r", " ", "E", "n", "g", "i", "n", "e", "e", "r">>

DescriptionPython == <<"P", "y", "t", "h", "o", "n", " ", "t", "e", "a", "m">>

IBMResearch == <<"I", "B", "M", " ", "R", "e", "s", "e", "a", "r", "c", "h">>

\* listings a board returns for "Engineer": one that the preferences below
\* want, one without their keyword, one with their excluded keyword in the
\* title, one of their excluded company and one of a company whose name
\* contains it
PrefListings ==
    { [externalId |-> "p1", source |-> "indeed", company |-> AcmeCorp,
       title |-> TitleEngineer, location |-> Remote, description |-> DescriptionPython],
      [externalId |-> "p2", source |-> "indeed", company |-> AcmeCorp,
       title |-> TitleEngineer, location |-> Remote, description |-> <<>>],
      [externalId |-> "p3", source |-> "indeed", company |-> AcmeCorp,
       title |-> TitleSeniorEngineer, location |-> Remote, description |-> DescriptionPython],
      [externalId |-> "p4", source |-> "indeed", company |-> IBM,
       title |-> TitleEngineer, location |-> Remote, description |-> DescriptionPython],
      [externalId |-> "p5", source |-> "indeed", company |-> IBMResearch,
       title |-> TitleEngineer, location |-> Remote, description |-> DescriptionPython] }

\* preferences with a keyword, an excluded company and an excluded keyword
PrefConfigs ==
    { [defaultJobBoards |-> <<"indeed">>,
       preferences |-> [titles |-> <<TitleEngineer>>, locations |-> <<>>,
                        remoteOnly |-> FALSE,
                        excludeCompanies |-> {<<"i", "b", "m">>},
                        keywords |-> {<<"p", "y", "t", "h", "o", "n">>},
                        excludeKeywords |-> {<<"s", "e", "n", "i", "o", "r">>}]] }

\* no scan running.  A running scan has its configuration, the searches still
\* to do (rest), its count of new jobs, the number of errors it logged, and the
\* listings of its last search with the listing at which the store threw
\* The scanner service around it: isRunning, the initial-delay timers not yet
\* fired, whether scanInterval holds a periodic timer, and the periodic timers
\* that start() replaced without clearing (leaked)
NoScan ==
    [running |-> FALSE, config |-> CHOOSE c \in ScanConfigs : Len(c.preferences.titles) = 0,
     rest |-> <<>>, totalNewJobs |-> 0, logged |-> 0, batch |-> <<>>, failAt |-> 0,
     isRunning |-> FALSE, initialTimers |-> 0, scanInterval |-> FALSE, leaked |-> 0]

\* the statuses the operator sets through the gateway and job_track
UpdateStatuses == {"submitted", "interview", "rejected"}

\* inbound events
Events ==
    { [from |-> FromAcmeHR, subject |-> SubjectNextSteps, body |-> BodyEmpty,
       gmailThreadId |-> "t1"],
      [from |-> FromAcmeHR, subject |-> SubjectYourApplication, body |-> BodyRejection,
       gmailThreadId |-> NULL],
      [from |-> FromAcmeLocal, subject |-> SubjectReceived, body |-> BodyThanks,
       gmailThreadId |-> "t1"],
      [from |-> FromRecruiter, subject |-> SubjectAcmeRole, body |-> BodyOfferAndRegret,
       gmailThreadId |-> NULL],
      [from |-> FromIBM, subject |-> SubjectIBM, body |-> BodyThanks,
       gmailThreadId |-> "t1"],
      [from |-> FromAcmeHR, subject |-> NoText, body |-> BodyThanks,
       gmailThreadId |-> NULL] }

\* the mail of one thread, of another thread and of no thread
ThreadEvents ==
    { [from |-> FromAcmeHR, subject |-> SubjectNextSteps, body |-> BodyEmpty,
       gmailThreadId |-> "t1"],
      [from |-> FromAcmeLocal, subject |-> SubjectReceived, body |-> BodyThanks,
       gmailThreadId |-> "t1"],
      [from |-> FromAcmeLocal, subject |-> SubjectReceived, body |-> BodyThanks,
       gmailThreadId |-> "t2"],
      [from |-> FromAcmeHR, subject |-> SubjectNextSteps, body |-> BodyEmpty,
       gmailThreadId |-> NULL] }

ThreadListings == {l \in Listings : l.externalId = "e1"}

\* the mail of one burst: an interview invitation and a rejection in one
\* thread, and mail of a company not applied to
InboxEvents ==
    { [from |-> FromAcmeHR, subject |-> SubjectNextSteps, body |-> BodyEmpty,
       gmailThreadId |-> "t1"],
      [from |-> FromAcmeHR, subject |-> SubjectYourApplication, body |-> BodyRejection,
       gmailThreadId |-> "t1"],
      [from |-> FromIBM, subject |-> SubjectIBM, body |-> BodyThanks,
       gmailThreadId |-> "t1"] }

\* mail of thread t1 and mail whose thread id is the empty string
IdEvents ==
    { [from |-> FromAcmeHR, subject |-> SubjectNextSteps, body |-> BodyEmpty,
       gmailThreadId |-> "t1"],
      [from |-> FromAcmeLocal, subject |-> SubjectReceived, body |-> BodyThanks,
       gmailThreadId |-> "t1"],
      [from |-> FromAcmeHR, subject |-> SubjectNextSteps, body |-> BodyEmpty,
       gmailThreadId |-> ""] }

AllEvents == Events \cup ThreadEvents \cup InboxEvents \cup IdEvents

Companies == {l.company : l \in Listings}

\* companyMatches and classifyEmailResponse over the inputs of the model
MatchTable == [c \in Companies, e \in AllEvents |-> companyMatches(c, e)]

ClassTable == [e \in AllEvents |-> classifyEmailResponse(e)]

\* preferences.excludeCompanies, remoteOnly and excludeKeywords against the
\* lower-cased company, title, location and description of a listing
passesFilters(job, preferences) ==
    LET companyLower == toLowerCase(job.company)
        titleLower == toLowerCase(job.title)
        locationLower == toLowerCase(job.location)
        descLower == toLowerCase(job.description)
    IN IF \E c \in preferences.excludeCompanies : includes(companyLower, toLowerCase(c))
       THEN FALSE
       ELSE IF preferences.remoteOnly
               /\ ~includes(locationLower, <<"r", "e", "m", "o", "t", "e">>)
       THEN FALSE
       ELSE IF \E kw \in preferences.excludeKeywords :
                  \/ includes(titleLower, toLowerCase(kw))
                  \/ includes(descLower, toLowerCase(kw))
       THEN FALSE
       ELSE TRUE

\* passesFilters over the inputs of the model
PassTable ==
    [c \in ScanConfigs \cup PrefConfigs |->
        [l \in ScanListings \cup PrefListings |-> passesFilters(l, c.preferences)]]

\* scanJobBoard's loop from listing i on: a known listing and a filtered one
\* are skipped, the others are stored.  store.createJob throws at listing
\* failAt (0: at none), and nothing in the loop catches it: the loop ends
\* there with what it stored so far.
RECURSIVE scanJobs(_, _, _, _, _, _, _)
scanJobs(d, mockJobs, i, newJobCount, config, failAt, t) ==
    IF i > Len(mockJobs)
    THEN [db |-> d, newJobCount |-> newJobCount, threw |-> FALSE]
    ELSE LET job == mockJobs[i]
             existing == getJobByExternalId(d, job.externalId, job.source)
         IN IF existing # NoId
            THEN scanJobs(d, mockJobs, i + 1, newJobCount, config, failAt, t)
            ELSE IF ~PassTable[config][job]
            THEN scanJobs(d, mockJobs, i + 1, newJobCount, config, failAt, t)
            ELSE IF i = failAt
            THEN [db |-> d, newJobCount |-> newJobCount, threw |-> TRUE]
            ELSE scanJobs(createJob(d, job, t), mockJobs, i + 1, newJobCount + 1,
                          config, failAt, t)

scanJobBoard(d, mockJobs, config, failAt, t) ==
    scanJobs(d, mockJobs, 1, 0, config, failAt, t)

\* runScan's three nested loops, in order: one search per source, title and
\* location ("" when no location is configured)
searchesOf(config) ==
    LET locations == IF Len(config.preferences.locations) > 0
                     THEN config.preferences.locations
                     ELSE << <<>> >>
        nT == Len(config.preferences.titles)
        nL == Len(locations)
    IN [k \in 1..(Len(config.defaultJobBoards) * nT * nL) |->
           [source |-> config.defaultJobBoards[((k - 1) \div (nT * nL)) + 1],
            query |-> config.preferences.titles[(((k - 1) \div nL) % nT) + 1],
            location |-> locations[((k - 1) % nL) + 1]]]

\* the orders in which SQLite may return rows with equal sort keys
RowOrders(ids) == {f \in [ids -> 1..Cardinality(ids)] : \A a, b \in ids : a # b => f[a] # f[b]}

NoMessage == [from |-> NoText, subject |-> NoText, body |-> NoText, gmailThreadId |-> NULL]

\* handled: "no" (no event since the last other operation), "ignored" (not a
\* Gmail notification) or "processed"
NoEvent == [handled |-> "no", event |-> NoMessage, matched |-> NoId, responseType |-> NULL]

\* op: the call answered, "none" after any other step; ok: whether it
\* succeeded; error: the error code or message of a failure; count: the rows it
\* reports as new; found: the rows it reports in all; status: details.status of
\* a tool result; args: the arguments of the call
NoReply ==
    [op |-> "none", ok |-> TRUE, error |-> NULL, status |-> NULL,
     count |-> 0, found |-> 0, args |-> <<>>]

\* nothing in flight
NoCalls == <<>>

\* the model stays within its bounds
BoundedTables(d) ==
    /\ Cardinality(DOMAIN d.jobs) <= MaxJobs
    /\ Cardinality(DOMAIN d.applications) <= MaxApps
    /\ Cardinality(DOMAIN d.email_threads) <= MaxThreads
    /\ d.resume_ids <= MaxResumes
    /\ \A x \in DOMAIN d.email_threads : d.email_threads[x].messageCount <= MaxMessages

Bounded(d) == BoundedTables(d) /\ Len(d.application_history) <= MaxHistory

BoundedMail(d) == BoundedTables(d) /\ Len(d.application_history) <= MaxMailHistory

\* ---------------------------------------------------------------------------
\* Operations
\* ---------------------------------------------------------------------------
Init ==
    /\ db = emptyDb
    /\ now = 1
    /\ foreignKeys \in BOOLEAN
    /\ hook = NoEvent
    /\ reply = NoReply
    /\ pending = NoCalls

\* time passes between two calls of Date.now()
Tick ==
    /\ now < MaxClock
    /\ now' = now + 1
    /\ hook' = NoEvent
    /\ reply' = NoReply
    /\ UNCHANGED <<db, foreignKeys, pending>>

\* job_search: the loop that stores the listings found, skipping known ones
RECURSIVE storeListings(_, _, _, _)
storeListings(d, listings, i, t) ==
    IF i > Len(listings) THEN d
    ELSE LET job == listings[i]
             existing == getJobByExternalId(d, job.externalId, job.source)
         IN storeListings(IF existing # NoId THEN d ELSE createJob(d, job, t),
                          listings, i + 1, t)

jobSearch(listings) ==
    /\ db' = storeListings(db, listings, 1, now)
    /\ hook' = NoEvent
    /\ reply' = [NoReply EXCEPT
                    !.op = "job_search",
                    !.count = Cardinality(DOMAIN db'.jobs) - Cardinality(DOMAIN db.jobs),
                    !.found = Len(listings)]
    /\ UNCHANGED <<now, foreignKeys, pending>>

\* job_search's filters: remote_only and the excluded companies of the
\* preferences, a company excluded when its lower-cased name is an entry
searchFilter(mockJobs, usePreferences, preferences) ==
    LET searchRemote == usePreferences /\ preferences.remoteOnly
        excludeLower == {toLowerCase(c) : c \in preferences.excludeCompanies}
    IN SelectSeq(mockJobs, LAMBDA j :
          /\ searchRemote => includes(toLowerCase(j.location), <<"r", "e", "m", "o", "t", "e">>)
          /\ (usePreferences /\ preferences.excludeCompanies # {})
                => toLowerCase(j.company) \notin excludeLower)

\* job_search with use_preferences and no remote_only or salary_min of its own
jobSearchTool(mockJobs, usePreferences, config) ==
    /\ \E filteredJobs \in {searchFilter(mockJobs, usePreferences, config.preferences)} :
          /\ db' = storeListings(db, filteredJobs, 1, now)
          /\ reply' = [NoReply EXCEPT
                          !.op = "job_search",
                          !.count = Cardinality(DOMAIN db'.jobs) - Cardinality(DOMAIN db.jobs),
                          !.found = Len(filteredJobs)]
    /\ hook' = NoEvent
    /\ UNCHANGED <<now, foreignKeys, pending>>

\* the scanner's timer fires: runScan starts, and ends at once when no title is
\* configured
scanStart(config) ==
    /\ ~pending.running
    /\ IF Len(config.preferences.titles) = 0
       THEN /\ pending' = pending
            /\ reply' = [NoReply EXCEPT !.op = "scan"]
       ELSE /\ pending' = [pending EXCEPT !.running = TRUE, !.config = config,
                                          !.rest = searchesOf(config)]
            /\ reply' = NoReply
    /\ hook' = NoEvent
    /\ UNCHANGED <<db, now, foreignKeys>>

\* one round of runScan's loop: scanJobBoard for the next search, its count
\* added to the total, or its exception caught and logged
scanNext(mockJobs, failAt) ==
    /\ pending.running
    /\ pending.rest # <<>>
    /\ \E r \in {scanJobBoard(db, mockJobs, pending.config, failAt, now)} :
          /\ db' = r.db
          /\ pending' = [pending EXCEPT
                 !.rest = Tail(@),
                 !.totalNewJobs = IF r.threw THEN @ ELSE @ + r.newJobCount,
                 !.logged = IF r.threw THEN @ + 1 ELSE @,
                 !.batch = mockJobs,
                 !.failAt = IF r.threw THEN failAt ELSE 0]
          /\ reply' = [NoReply EXCEPT
                          !.op = "scan_job_board",
                          !.ok = ~r.threw,
                          !.error = IF r.threw THEN "store" ELSE NULL,
                          !.count = r.newJobCount,
                          !.found = Len(mockJobs)]
    /\ hook' = NoEvent
    /\ UNCHANGED <<now, foreignKeys>>

\* runScan after its last search: the summary is logged
scanEnd ==
    /\ pending.running
    /\ pending.rest = <<>>
    /\ pending' = [pending EXCEPT !.running = FALSE, !.config = NoScan.config,
                                  !.totalNewJobs = 0, !.logged = 0,
                                  !.batch = <<>>, !.failAt = 0]
    /\ reply' = [NoReply EXCEPT !.op = "scan", !.count = pending.totalNewJobs]
    /\ hook' = NoEvent
    /\ UNCHANGED <<db, now, foreignKeys>>

\* a plausible slip: the timer callbacks call runScan without looking at
\* isRunning
timerRuns_always(service) == TRUE

\* the timer callbacks' if (isRunning)
timerRuns(service) == service.isRunning

\* the scanner service's start(): isRunning is set and, when scanInterval
\* parses to a positive number of milliseconds, the initial-delay timer and the
\* periodic timer are set; a periodic timer scanInterval already held is
\* overwritten, not cleared
serviceStart(intervalMs) ==
    /\ pending' = IF intervalMs > 0
                  THEN [pending EXCEPT
                           !.isRunning = TRUE,
                           !.initialTimers = @ + 1,
                           !.leaked = IF pending.scanInterval THEN @ + 1 ELSE @,
                           !.scanInterval = TRUE]
                  ELSE [pending EXCEPT !.isRunning = TRUE]
    /\ reply' = NoReply
    /\ hook' = NoEvent
    /\ UNCHANGED <<db, now, foreignKeys>>

\* the scanner service's stop(): isRunning is unset and the periodic timer
\* scanInterval holds is cleared
serviceStop ==
    /\ pending' = [pending EXCEPT !.isRunning = FALSE, !.scanInterval = FALSE]
    /\ reply' = NoReply
    /\ hook' = NoEvent
    /\ UNCHANGED <<db, now, foreignKeys>>

\* runScan is called by a timer: the service as it is after the call's first
\* synchronous part
runScanCalled(service, config) ==
    IF Len(config.preferences.titles) = 0
    THEN service
    ELSE [service EXCEPT !.running = TRUE, !.config = config,
                         !.rest = searchesOf(config)]

\* an initial-delay timer fires, 30 seconds after its start()
initialTimerFires(config) ==
    /\ pending.initialTimers > 0
    /\ timerRuns(pending) => ~pending.running
    /\ IF timerRuns(pending)
       THEN /\ pending' = runScanCalled([pending EXCEPT !.initialTimers = @ - 1], config)
            /\ reply' = IF Len(config.preferences.titles) = 0
                        THEN [NoReply EXCEPT !.op = "scan"]
                        ELSE NoReply
       ELSE /\ pending' = [pending EXCEPT !.initialTimers = @ - 1]
            /\ reply' = NoReply
    /\ hook' = NoEvent
    /\ UNCHANGED <<db, now, foreignKeys>>

\* a periodic timer fires: the one scanInterval holds or a leaked one
periodicTimerFires(config) ==
    /\ pending.scanInterval \/ pending.leaked > 0
    /\ timerRuns(pending) => ~pending.running
    /\ IF timerRuns(pending)
       THEN /\ pending' = runScanCalled(pending, config)
            /\ reply' = IF Len(config.preferences.titles) = 0
                        THEN [NoReply EXCEPT !.op = "scan"]
                        ELSE NoReply
       ELSE /\ pending' = pending
            /\ reply' = NoReply
    /\ hook' = NoEvent
    /\ UNCHANGED <<db, now, foreignKeys>>

\* gateway method jobbot.applications.create
applicationsCreate(jobId) ==
    /\ IF jobId = NoId
       THEN /\ db' = db
            /\ reply' = [NoReply EXCEPT !.op = "applications.create", !.ok = FALSE,
                                        !.error = "Missing jobId", !.args = <<jobId>>]
       ELSE IF getApplicationByJobId(db, jobId) # NoId
       THEN /\ db' = db
            /\ reply' = [NoReply EXCEPT !.op = "applications.create", !.ok = FALSE,
                                        !.error = "Application already exists for this job",
                                        !.args = <<jobId>>]
       ELSE IF foreignKeys /\ ~hasJob(db, jobId)
       THEN /\ db' = db
            /\ reply' = [NoReply EXCEPT !.op = "applications.create", !.ok = FALSE,
                                        !.error = "FOREIGN KEY constraint failed",
                                        !.args = <<jobId>>]
       ELSE /\ db' = createApplication(db, jobId, now)
            /\ reply' = [NoReply EXCEPT !.op = "applications.create", !.args = <<jobId>>]
    /\ hook' = NoEvent
    /\ UNCHANGED <<now, foreignKeys, pending>>

\* a plausible slip: confirm = true submits whatever dry_run says
previewOnly_confirmWins(confirm, dryRun) == ~confirm

\* job_apply: if (dry_run || !confirm), the preview is shown and nothing is
\* submitted
previewOnly(confirm, dryRun) == dryRun \/ ~confirm

\* job_apply; resumeId NoId: the default resume
jobApply(jobId, resumeId, confirm, dryRun) ==
    LET existingApp == getApplicationByJobId(db, jobId)
        resume == IF resumeId # NoId
                  THEN IF hasResume(db, resumeId) THEN resumeId ELSE NoId
                  ELSE getDefaultResume(db)
        called == [NoReply EXCEPT !.op = "job_apply",
                                  !.args = <<jobId, resumeId, confirm, dryRun>>]
    IN /\ IF ~hasJob(db, jobId)
          THEN /\ db' = db
               /\ reply' = [called EXCEPT !.ok = FALSE, !.error = "job_not_found"]
          ELSE IF existingApp # NoId /\ db.applications[existingApp].status # "pending"
          THEN /\ db' = db
               /\ reply' = [called EXCEPT !.ok = FALSE, !.error = "already_applied"]
          ELSE IF resume = NoId
          THEN /\ db' = db
               /\ reply' = [called EXCEPT !.ok = FALSE, !.error = "no_resume"]
          ELSE IF previewOnly(confirm, dryRun)
          THEN /\ db' = IF existingApp = NoId THEN createApplication(db, jobId, now) ELSE db
               /\ reply' = [called EXCEPT !.status = "pending_confirmation"]
          ELSE \E created \in {IF existingApp # NoId THEN db
                                ELSE createApplication(db, jobId, now)} :
                  /\ db' = updateJobStatus(
                              updateApplicationStatus(
                                  created, getApplicationByJobId(created, jobId),
                                  "submitted", "Application submitted successfully", now),
                              jobId, "applied")
                  /\ reply' = [called EXCEPT !.status = "submitted"]
       /\ hook' = NoEvent
       /\ UNCHANGED <<now, foreignKeys, pending>>

\* gateway method jobbot.jobs.update, without metadata
jobsUpdate(id, status) ==
    /\ db' = IF status # NULL THEN updateJobStatus(db, id, status) ELSE db
    /\ hook' = NoEvent
    /\ reply' = [NoReply EXCEPT !.op = "jobs.update",
                                !.found = IF hasJob(db, id) THEN id ELSE NoId]
    /\ UNCHANGED <<now, foreignKeys, pending>>

\* gateway method jobbot.applications.update
applicationsUpdate(id, status, notes) ==
    /\ db' = IF status # NULL THEN updateApplicationStatus(db, id, status, notes, now) ELSE db
    /\ hook' = NoEvent
    /\ reply' = [NoReply EXCEPT !.op = "applications.update",
                                !.found = IF hasApplication(db, id) THEN id ELSE NoId]
    /\ UNCHANGED <<now, foreignKeys, pending>>

\* jobbot.applications.update when the INSERT INTO application_history throws:
\* the UPDATE before it ran in its own implicit transaction and stays, the
\* method's catch answers the error
applicationsUpdateThrows(id, status, notes) ==
    /\ status # NULL
    /\ hasApplication(db, id)
    /\ db' = updateApplicationRow(db, id, status, now)
    /\ hook' = NoEvent
    /\ reply' = [NoReply EXCEPT !.op = "applications.update", !.ok = FALSE,
                                !.error = "store", !.found = id]
    /\ UNCHANGED <<now, foreignKeys, pending>>

\* job_track, action "update", with an application_id
handleUpdate(applicationId, newStatus, notes) ==
    /\ db' = IF newStatus = NULL THEN db
             ELSE IF ~hasApplication(db, applicationId) THEN db
             ELSE updateApplicationStatus(db, applicationId, newStatus, notes, now)
    /\ hook' = NoEvent
    /\ reply' = NoReply
    /\ UNCHANGED <<now, foreignKeys, pending>>

\* gateway method jobbot.emails.create
emailsCreate(applicationId, gmailThreadId) ==
    /\ db' = IF foreignKeys /\ ~hasApplication(db, applicationId) THEN db
             ELSE createEmailThread(db, applicationId, gmailThreadId, now)
    /\ hook' = NoEvent
    /\ reply' = NoReply
    /\ UNCHANGED <<now, foreignKeys, pending>>

\* the message_received hook of the email monitor
messageReceived(event, rowOrder) ==
    /\ IF ~isGmailNotification(event)
       THEN /\ db' = db
            /\ hook' = [handled |-> "ignored", event |-> event,
                        matched |-> NoId, responseType |-> NULL]
       ELSE \E r \in {processEmailNotification(db, event, rowOrder, now, MatchTable, ClassTable)} :
               /\ db' = r.db
               /\ hook' = [handled |-> "processed", event |-> event,
                           matched |-> r.matched, responseType |-> r.responseType]
    /\ reply' = NoReply
    /\ UNCHANGED <<now, foreignKeys, pending>>

\* the store call of processEmailNotification that throws: none, the status
\* update or the thread upsert
Failures == {"none", "status", "thread"}

\* processEmailNotification when a store call throws: what was written before
\* the call stays written
processEmailFailing(d, email, rowOrder, t, failAt, matches, classes) ==
    LET done == processEmailNotification(d, email, rowOrder, t, matches, classes)
        application == matchEmailToApplication(d, email, rowOrder, matches)
        responseType == classes[email]
        newStatus == responseTypeToStatus(responseType, application.currentStatus)
    IN IF failAt = "none" \/ application.applicationId = NoId
       THEN [db |-> done.db, matched |-> done.matched,
             responseType |-> done.responseType, threw |-> FALSE]
       ELSE IF failAt = "status"
       THEN IF newStatus # NULL /\ newStatus # application.currentStatus
            THEN [db |-> d, matched |-> done.matched,
                  responseType |-> done.responseType, threw |-> TRUE]
            ELSE [db |-> done.db, matched |-> done.matched,
                  responseType |-> done.responseType, threw |-> FALSE]
       ELSE [db |-> applyResponse(d, application, responseType, t),
             matched |-> done.matched,
             responseType |-> done.responseType, threw |-> TRUE]

\* the email monitor: the hook registered (alive), the errors it logged, the
\* handler invocations whose promise has not settled, each with whether
\* processEmailNotification threw, and, since the last moment no invocation
\* was unsettled, the store of that moment (base) and the events that arrived
NoBurst ==
    [alive |-> TRUE, logged |-> 0, unsettled |-> <<>>, base |-> emptyDb, arrived |-> <<>>]

\* a plausible slip: an invocation works on the store as the first unsettled
\* invocation found it
storeSeenBy_snapshot(d, monitor) ==
    IF monitor.unsettled # <<>> THEN monitor.base ELSE d

\* the store a handler invocation works on: processEmailNotification has no
\* await, so every earlier invocation has made all its store calls
storeSeenBy(d, monitor) == d

\* a plausible slip: no catch, the rejection reaches the hook runner and the
\* hook is dropped
afterError_rethrow(monitor) == [monitor EXCEPT !.alive = FALSE]

\* the hook's catch block: the error is logged
afterError(monitor) == [monitor EXCEPT !.logged = @ + 1]

\* the hook is called with an event: the handler runs up to its await, that
\* is through all of processEmailNotification
hookDeliver(event, rowOrder, failAt) ==
    /\ pending.alive
    /\ IF ~isGmailNotification(event)
       THEN /\ db' = db
            /\ pending' = pending
            /\ hook' = [handled |-> "ignored", event |-> event,
                        matched |-> NoId, responseType |-> NULL]
       ELSE \E r \in {processEmailFailing(storeSeenBy(db, pending), event, rowOrder, now,
                                          failAt, MatchTable, ClassTable)} :
               /\ db' = r.db
               /\ pending' =
                      [pending EXCEPT
                          !.unsettled = Append(@, IF r.threw THEN "threw" ELSE "ok"),
                          !.base = IF pending.unsettled = <<>> THEN db ELSE @,
                          !.arrived =
                              Append(IF pending.unsettled = <<>> THEN <<>> ELSE @,
                                     [event |-> event, rowOrder |-> rowOrder,
                                      t |-> now, failAt |-> failAt])]
               /\ hook' = [handled |-> "processed", event |-> event,
                           matched |-> r.matched, responseType |-> r.responseType]
    /\ reply' = NoReply
    /\ UNCHANGED <<now, foreignKeys>>

\* the oldest unsettled promise settles: the handler returns, through its
\* catch block if processEmailNotification threw
hookSettle ==
    /\ pending.unsettled # <<>>
    /\ pending' = IF Head(pending.unsettled) = "threw"
                  THEN [afterError(pending) EXCEPT !.unsettled = Tail(@)]
                  ELSE [pending EXCEPT !.unsettled = Tail(@)]
    /\ reply' = NoReply
    /\ UNCHANGED <<db, now, foreignKeys, hook>>

pendingApplications(d) ==
    {a \in DOMAIN d.applications : d.applications[a].status = "pending"}

\* The email engine: the operator finds jobs, creates applications and marks
\* the pending ones submitted; inbound mail does the rest.  Every call happens at the same
\* reading of the clock, so the order of candidates with equal updated_at is
\* any order.
Next ==
    \/ \E l \in Listings : jobSearch(<<l>>) /\ BoundedMail(db')
    \/ \E j \in DOMAIN db.jobs \cup {UnknownId} : applicationsCreate(j) /\ BoundedMail(db')
    \/ \E a \in pendingApplications(db) \cup {UnknownId} :
          applicationsUpdate(a, "submitted", NULL) /\ BoundedMail(db')
    \/ \E e \in Events, ro \in RowOrders(DOMAIN db.applications) :
          messageReceived(e, ro) /\ BoundedMail(db')

Spec == Init /\ [][Next]_vars

\* The application life cycle under operator updates, with the clock running.
AcmeListings == {l \in Listings : l.company = AcmeCorp}

NextStore ==
    \/ Tick
    \/ \E l \in AcmeListings : jobSearch(<<l>>) /\ Bounded(db')
    \/ \E j \in DOMAIN db.jobs \cup {UnknownId} : applicationsCreate(j) /\ Bounded(db')
    \/ \E a \in DOMAIN db.applications \cup {UnknownId}, st \in UpdateStatuses \cup {NULL} :
          applicationsUpdate(a, st, NULL) /\ Bounded(db')
    \/ \E a \in DOMAIN db.applications \cup {UnknownId}, st \in UpdateStatuses \cup {NULL} :
          handleUpdate(a, st, NULL) /\ Bounded(db')

SpecStore == Init /\ [][NextStore]_vars

\* The order of candidates: two postings of one company, the clock running.
OrderEvents == {e \in Events : e.from = FromAcmeHR /\ e.subject = SubjectNextSteps}

NextOrder ==
    \/ Tick
    \/ \E l \in AcmeListings : jobSearch(<<l>>) /\ Bounded(db')
    \/ \E j \in DOMAIN db.jobs : applicationsCreate(j) /\ Bounded(db')
    \/ \E a \in DOMAIN db.applications, st \in {"submitted", "interview"} :
          applicationsUpdate(a, st, NULL) /\ Bounded(db')
    \/ \E e \in OrderEvents, ro \in RowOrders(DOMAIN db.applications) :
          messageReceived(e, ro) /\ Bounded(db')

SpecOrder == Init /\ [][NextOrder]_vars

\* Email threads: the mail about one posting, the clock running.
NextThreads ==
    \/ Tick
    \/ \E l \in ThreadListings : jobSearch(<<l>>) /\ BoundedMail(db')
    \/ \E j \in DOMAIN db.jobs : applicationsCreate(j) /\ BoundedMail(db')
    \/ \E a \in pendingApplications(db) :
          applicationsUpdate(a, "submitted", NULL) /\ BoundedMail(db')
    \/ \E a \in DOMAIN db.applications \cup {UnknownId} :
          emailsCreate(a, "t1") /\ BoundedMail(db')
    \/ \E e \in ThreadEvents, ro \in RowOrders(DOMAIN db.applications) :
          messageReceived(e, ro) /\ BoundedMail(db')

SpecThreads == Init /\ [][NextThreads]_vars

\* Inbound mail only: no thread is stored but by the email monitor
NextIds ==
    \/ Tick
    \/ \E l \in ThreadListings : jobSearch(<<l>>) /\ BoundedMail(db')
    \/ \E j \in DOMAIN db.jobs : applicationsCreate(j) /\ BoundedMail(db')
    \/ \E a \in pendingApplications(db) :
          applicationsUpdate(a, "submitted", NULL) /\ BoundedMail(db')
    \/ \E e \in IdEvents, ro \in RowOrders(DOMAIN db.applications) :
          messageReceived(e, ro) /\ BoundedMail(db')

SpecIds == Init /\ [][NextIds]_vars

\* Finding jobs: the scanner's searches, one after the other, with job_search
\* calls between them; the store throws at any listing.
InitScan ==
    /\ db = emptyDb
    /\ now = 1
    /\ foreignKeys \in BOOLEAN
    /\ hook = NoEvent
    /\ reply = NoReply
    /\ pending = [NoScan EXCEPT !.isRunning = TRUE]

NextScan ==
    \/ \E source \in JobBoards : \E listings \in Batches[source] :
          jobSearch(listings) /\ BoundedTables(db')
    \/ \E config \in ScanConfigs : scanStart(config)
    \/ /\ pending.running
       /\ pending.rest # <<>>
       /\ \E mockJobs \in Batches[Head(pending.rest).source] :
             \E failAt \in 0..Len(mockJobs) :
                scanNext(mockJobs, failAt) /\ BoundedTables(db')
    \/ scanEnd

SpecScan == InitScan /\ [][NextScan]_vars

\* what one search can return of the listings above
PrefBatches == UNION {[1..n -> PrefListings] : n \in 1..MaxBatch}

\* Finding jobs under preferences: scheduled scans and job_search calls that
\* use the preferences, over one configuration.
NextPrefs ==
    \/ \E config \in PrefConfigs, mockJobs \in PrefBatches :
          jobSearchTool(mockJobs, TRUE, config) /\ BoundedTables(db')
    \/ \E config \in PrefConfigs : scanStart(config)
    \/ /\ pending.running
       /\ pending.rest # <<>>
       /\ \E mockJobs \in PrefBatches : scanNext(mockJobs, 0) /\ BoundedTables(db')
    \/ scanEnd

SpecPrefs == InitScan /\ [][NextPrefs]_vars

\* the email monitor's start(): the message_received hook is registered
monitorStart ==
    /\ ~pending.alive
    /\ pending' = [pending EXCEPT !.alive = TRUE]
    /\ reply' = [NoReply EXCEPT !.op = "monitor.start"]
    /\ hook' = NoEvent
    /\ UNCHANGED <<db, now, foreignKeys>>

\* the email monitor's stop(): a line is logged
monitorStop ==
    /\ pending' = pending
    /\ reply' = [NoReply EXCEPT !.op = "monitor.stop"]
    /\ hook' = NoEvent
    /\ UNCHANGED <<db, now, foreignKeys>>

\* the events of one burst, and the failures of one run
MaxBurst == 2

MaxFailures == 1

InitInbox ==
    /\ db = emptyDb
    /\ now = 1
    /\ foreignKeys \in BOOLEAN
    /\ hook = NoEvent
    /\ reply = NoReply
    /\ pending = NoBurst

\* Inbound mail about one posting: the operator finds the job, applies and
\* marks the application submitted while no mail is being handled; events
\* reach the hook while earlier invocations are unsettled, and a store call of
\* an invocation may throw.
NextInbox ==
    \/ /\ pending.unsettled = <<>>
       /\ \/ \E l \in ThreadListings : jobSearch(<<l>>) /\ Bounded(db')
          \/ \E j \in DOMAIN db.jobs : applicationsCreate(j) /\ Bounded(db')
          \/ \E a \in pendingApplications(db) :
                applicationsUpdate(a, "submitted", NULL) /\ Bounded(db')
    \/ \E e \in InboxEvents, ro \in RowOrders(DOMAIN db.applications) :
          \E failAt \in Failures :
             /\ hookDeliver(e, ro, failAt)
             /\ Bounded(db')
             /\ Len(pending'.arrived) <= MaxBurst
             /\ Cardinality({i \in 1..Len(pending'.unsettled) :
                                pending'.unsettled[i] = "threw"})
                   + pending'.logged <= MaxFailures
    \/ hookSettle

SpecInbox == InitInbox /\ [][NextInbox]_vars

\* the timers set and not yet fired or cleared
MaxTimers == 2

\* the searches of a running scan, each finding at most one listing
scanProgress ==
    \/ /\ pending.running
       /\ pending.rest # <<>>
       /\ \E mockJobs \in {b \in Batches[Head(pending.rest).source] : Len(b) <= 1} :
             scanNext(mockJobs, 0) /\ BoundedTables(db')
    \/ scanEnd

\* The scanner service: start() and stop() in any order, the timers firing
\* whenever they are set, and the scan a timer started running on; at most one
\* scan runs at a time.
NextService ==
    \/ \E intervalMs \in {0, 21600000} :
          /\ serviceStart(intervalMs)
          /\ pending'.initialTimers + pending'.leaked <= MaxTimers
    \/ serviceStop
    \/ \E config \in ScanConfigs : initialTimerFires(config)
    \/ \E config \in ScanConfigs : periodicTimerFires(config)
    \/ scanProgress

InitService ==
    /\ db = emptyDb
    /\ now = 1
    /\ foreignKeys \in BOOLEAN
    /\ hook = NoEvent
    /\ reply = NoReply
    /\ pending = NoScan

SpecService == InitService /\ [][NextService]_vars

\* runScan's awaits are timers of two seconds: a running scan goes on
SpecServiceFair == SpecService /\ WF_vars(scanProgress)

InitMonitor ==
    /\ db = emptyDb
    /\ now = 1
    /\ foreignKeys \in BOOLEAN
    /\ hook = NoEvent
    /\ reply = NoReply
    /\ pending = [NoBurst EXCEPT !.alive = FALSE]

\* The email monitor from its start: the service is started once and stopped
\* at any time, the operator applies to one posting, and mail arrives.
NextMonitor ==
    \/ monitorStart
    \/ monitorStop
    \/ /\ pending.unsettled = <<>>
       /\ \/ \E l \in ThreadListings : jobSearch(<<l>>) /\ Bounded(db')
          \/ \E j \in DOMAIN db.jobs : applicationsCreate(j) /\ Bounded(db')
          \/ \E a \in pendingApplications(db) :
                applicationsUpdate(a, "submitted", NULL) /\ Bounded(db')
    \/ \E e \in InboxEvents, ro \in RowOrders(DOMAIN db.applications) :
          /\ hookDeliver(e, ro, "none")
          /\ Bounded(db')
          /\ Len(pending'.arrived) <= MaxBurst
    \/ hookSettle

SpecMonitor == InitMonitor /\ [][NextMonitor]_vars

\* Status updates by id: the operator finds one posting, applies, and
\* updates jobs and applications by ids the store may not hold.
UpdateJobStatuses == {"reviewing", "archived"}

NextUpdates ==
    \/ \E l \in ThreadListings : jobSearch(<<l>>) /\ Bounded(db')
    \/ \E j \in DOMAIN db.jobs : applicationsCreate(j) /\ Bounded(db')
    \/ \E a \in DOMAIN db.applications \cup {UnknownId}, st \in {"submitted", "rejected", NULL} :
          applicationsUpdate(a, st, NULL) /\ Bounded(db')
    \/ \E j \in DOMAIN db.jobs \cup {UnknownId}, st \in UpdateJobStatuses \cup {NULL} :
          jobsUpdate(j, st)

SpecUpdates == Init /\ [][NextUpdates]_vars

\* Status updates on a store whose history insert can fail.
NextFailing ==
    \/ \E l \in ThreadListings : jobSearch(<<l>>) /\ Bounded(db')
    \/ \E j \in DOMAIN db.jobs : applicationsCreate(j) /\ Bounded(db')
    \/ \E a \in DOMAIN db.applications, st \in {"submitted", "rejected"} :
          applicationsUpdate(a, st, NULL) /\ Bounded(db')
    \/ \E a \in DOMAIN db.applications, st \in {"submitted", "rejected"} :
          applicationsUpdateThrows(a, st, NULL)

SpecFailing == Init /\ [][NextFailing]_vars

\* A long job hunt: two applications more than listApplications returns by
\* default, each to its own posting, each submitted at its own time; the
\* postings in acme are those of Acme Corp.  The store is what job_search,
\* applications.create and applications.update leave after ManyApps rounds,
\* one per clock reading.
ManyApps == DefaultLimit + 2

\* round j on its own: posting j stored, an application created and submitted
roundOf(j, acme) ==
    LET listing == [externalId |-> ToString(j), source |-> "indeed",
                    company |-> IF j \in acme THEN AcmeCorp ELSE IBM]
        found == storeListings(emptyDb, <<listing>>, 1, j)
        created == createApplication(found, j, j)
    IN updateApplicationStatus(created, getApplicationByJobId(created, j), "submitted", NULL, j)

\* the rows of the rounds, round j's under the ids j
manyApplications(acme) ==
    [emptyDb EXCEPT
        !.jobs = [j \in 1..ManyApps |-> roundOf(j, acme).jobs[1]],
        !.applications = [j \in 1..ManyApps |-> roundOf(j, acme).applications[1]],
        !.application_history =
            [j \in 1..ManyApps |->
                [roundOf(j, acme).application_history[1] EXCEPT !.applicationId = j]]]

\* Acme posted the oldest job, the newest, or both
InitMany ==
    /\ \E acme \in {{1}, {ManyApps}, {1, ManyApps}} : db = manyApplications(acme)
    /\ now = ManyApps + 1
    /\ foreignKeys \in BOOLEAN
    /\ hook = NoEvent
    /\ reply = NoReply
    /\ pending = NoCalls

\* no two applications share updated_at, so the rows come in one order
storedOrder(d) == [a \in DOMAIN d.applications |-> a]

NextMany ==
    \E e \in Events :
        /\ messageReceived(e, storedOrder(db))
        /\ Cardinality(DOMAIN db'.email_threads) <= MaxThreads
        /\ \A x \in DOMAIN db'.email_threads : db'.email_threads[x].messageCount <= MaxMessages

SpecMany == InitMany /\ [][NextMany]_vars

\* Classification alone: classifyEmailResponse applied to one email drawn from
\* subjects and bodies that mix the keyword lists.
ClassifySubjects ==
    { <<"Y", "o", "u", "r", " ", "a", "p", "p", "l", "i", "c", "a", "t", "i", "o", "n">>,
      <<"I", "n", "t", "e", "r", "v", "i", "e", "w", " ", "I", "n", "v", "i", "t", "a", "t", "i", "o", "n">>,
      <<"J", "O", "B", " ", "O", "F", "F", "E", "R">>,
      <<"U", "p", "d", "a", "t", "e">>,
      <<"N", "e", "x", "t", " ", "S", "t", "e", "p", "s">>,
      <<"J", "o", "b">>,
      <<"N", "o", "t", " ", "s", "e", "l", "e", "c", "t", "e", "d">>,
      <<"S", "t", "a", "r", "t", " ", "D", "a", "t", "e">> }

ClassifyBodies ==
    { <<>>,
      <<"T", "h", "a", "n", "k", "s">>,
      <<"U", "n", "f", "o", "r", "t", "u", "n", "a", "t", "e", "l", "y", " ", "w", "e", " ", "c", "h", "o", "s", "e", " ", "o", "t", "h", "e", "r", " ", "c", "a", "n", "d", "i", "d", "a", "t", "e", "s">>,
      <<"W", "e", " ", "r", "e", "g", "r", "e", "t", " ", "t", "o", " ", "i", "n", "f", "o", "r", "m", " ", "y", "o", "u", " ", "t", "h", "e", " ", "s", "t", "a", "r", "t", " ", "d", "a", "t", "e", " ", "m", "o", "v", "e", "d">>,
      <<"P", "l", "e", "a", "s", "e", " ", "s", "h", "a", "r", "e", " ", "y", "o", "u", "r", " ", "a", "v", "a", "i", "l", "a", "b", "i", "l", "i", "t", "y">>,
      <<"o", "f", "f", "e", "r", " ", "e", "n", "c", "l", "o", "s", "e", "d">>,
      <<"W", "e", " ", "w", "o", "u", "l", "d", " ", "l", "i", "k", "e", " ", "t", "o", " ", "s", "p", "e", "a", "k", ",", " ", "u", "n", "f", "o", "r", "t", "u", "n", "a", "t", "e", "l", "y", " ", "n", "o", "t", " ", "t", "h", "i", "s", " ", "w", "e", "e", "k">>,
      <<"P", "L", "E", "A", "S", "E", "D", " ", "T", "O", " ", "O", "F", "F", "E", "R", " ", "y", "o", "u", " ", "a", " ", "T", "e", "c", "h", "n", "i", "c", "a", "l", " ", "I", "n", "t", "e", "r", "v", "i", "e", "w">> }

InitClassify ==
    /\ db = emptyDb
    /\ now = 1
    /\ foreignKeys \in BOOLEAN
    /\ \E s \in ClassifySubjects, b \in ClassifyBodies :
          hook = [handled |-> "no",
                  event |-> [from |-> FromRecruiter, subject |-> s, body |-> b,
                             gmailThreadId |-> NULL],
                  matched |-> NoId,
                  responseType |-> NULL]
    /\ reply = NoReply
    /\ pending = NoCalls

classify ==
    /\ hook.handled = "no"
    /\ hook' = [hook EXCEPT !.handled = "classified",
                            !.responseType = classifyEmailResponse(hook.event)]
    /\ UNCHANGED <<db, now, foreignKeys, reply, pending>>

NextClassify == classify

SpecClassify == InitClassify /\ [][NextClassify]_vars

\* Resume management: the resume_manage tool, the gateway methods and direct
\* calls of createResume.
handleUpload ==
    /\ db' = createResume(copyFileSync(db), listResumes(db) = {})
    /\ reply' = NoReply
    /\ UNCHANGED <<now, foreignKeys, hook, pending>>

\* JobStore.createResume called with the isDefault the caller chooses
createResumeCall(isDefault) ==
    /\ db' = createResume(db, isDefault)
    /\ reply' = NoReply
    /\ UNCHANGED <<now, foreignKeys, hook, pending>>

\* resume_manage, action "set_default"
handleSetDefault(resumeId) ==
    /\ db' = IF hasResume(db, resumeId) THEN setDefaultResume(db, resumeId) ELSE db
    /\ reply' = NoReply
    /\ UNCHANGED <<now, foreignKeys, hook, pending>>

\* gateway method jobbot.resumes.setDefault
resumesSetDefault(id) ==
    /\ db' = setDefaultResume(db, id)
    /\ reply' = [NoReply EXCEPT !.op = "resumes.setDefault", !.args = <<id>>,
                                !.found = IF hasResume(db, id) THEN id ELSE NoId]
    /\ UNCHANGED <<now, foreignKeys, hook, pending>>

\* resume_manage, action "delete"; unlinkFails: unlinkSync throws
handleDelete(resumeId, unlinkFails) ==
    LET called == [NoReply EXCEPT !.op = "resume_manage.delete", !.found = resumeId]
        failed == existsSync(db, resumeId) /\ unlinkFails
        unlinked == IF existsSync(db, resumeId) /\ ~unlinkFails
                    THEN unlinkSync(db, resumeId) ELSE db
    IN /\ IF ~hasResume(db, resumeId)
          THEN /\ db' = db
               /\ reply' = [called EXCEPT !.ok = FALSE, !.error = "not_found", !.found = NoId]
          ELSE IF ~unlinkCaught(failed)
          THEN /\ db' = db
               /\ reply' = [called EXCEPT !.ok = FALSE, !.error = "unlink failed"]
          ELSE /\ db' = deleteResume(unlinked, resumeId)
               /\ reply' = called
       /\ UNCHANGED <<now, foreignKeys, hook, pending>>

\* gateway method jobbot.resumes.delete
resumesDelete(id) ==
    /\ db' = deleteResume(db, id)
    /\ reply' = [NoReply EXCEPT !.op = "resumes.delete",
                                !.found = IF hasResume(db, id) THEN id ELSE NoId]
    /\ UNCHANGED <<now, foreignKeys, hook, pending>>

NextResumes ==
    \/ handleUpload /\ Bounded(db')
    \/ \E isDefault \in BOOLEAN : createResumeCall(isDefault) /\ Bounded(db')
    \/ \E r \in DOMAIN db.resumes \cup {UnknownId} : handleSetDefault(r)
    \/ \E r \in DOMAIN db.resumes \cup {UnknownId} : resumesSetDefault(r)
    \/ \E r \in DOMAIN db.resumes \cup {UnknownId} : handleDelete(r, FALSE)
    \/ \E r \in DOMAIN db.resumes \cup {UnknownId} : resumesDelete(r)

SpecResumes == Init /\ [][NextResumes]_vars

\* Resume files: resumes are uploaded and deleted through the tool, on a disk
\* where removing a file can fail.
NextDisk ==
    \/ handleUpload /\ Bounded(db')
    \/ \E r \in DOMAIN db.resumes \cup {UnknownId}, unlinkFails \in BOOLEAN :
          handleDelete(r, unlinkFails)
    \/ \E r \in DOMAIN db.resumes : handleSetDefault(r)

SpecDisk == Init /\ [][NextDisk]_vars

\* The statistics queries are read alone: the store holds what an earlier
\* job hunt left, and one query is answered.
Jan31 == 30 * DayMs

Feb1 == 31 * DayMs

HalfDay == DayMs \div 2

\* the last second of January 30th, January 31st at midnight and at
\* noon, February 1st at midnight
TimelineTimes == {Jan31 - 1, Jan31, Jan31 + HalfDay, Feb1}

\* days of jobbot.stats.timeline: today, since yesterday noon, two days, the default
TimelineDays == {0, 1, 2, 30}

\* postings in the order they were found
QueryListings ==
    <<[externalId |-> "e1", source |-> "indeed", company |-> AcmeCorp],
      [externalId |-> "e2", source |-> "indeed", company |-> AcmeCorp],
      [externalId |-> "e3", source |-> "indeed", company |-> IBM],
      [externalId |-> "e1", source |-> "linkedin", company |-> AcmeCorp]>>

\* the stores of a job hunt: job i found at found[i], ids in the order of
\* discovery, and an application to each of the first jobs, submitted at
\* applied[i] or still pending
TimelineDbs ==
    LET founds == UNION {[1..n -> TimelineTimes] : n \in 0..MaxJobs}
        ordered == {f \in founds : \A i, j \in DOMAIN f : i < j => f[i] <= f[j]}
        applieds(f) ==
            {a \in UNION {[1..n -> TimelineTimes \cup {NoTime}] : n \in 0..MaxApps} :
                /\ Len(a) <= Len(f)
                /\ \A i \in DOMAIN a : a[i] = NoTime \/ a[i] >= f[i]}
    IN UNION {{[emptyDb EXCEPT
                 !.jobs = [i \in DOMAIN f |->
                            [externalId |-> QueryListings[i].externalId,
                             source |-> QueryListings[i].source,
                             company |-> QueryListings[i].company,
                             discoveredAt |-> f[i],
                             status |-> IF i \in DOMAIN a /\ a[i] # NoTime
                                        THEN "applied" ELSE "new"]],
                 !.applications = [i \in DOMAIN a |->
                            [jobId |-> i,
                             status |-> IF a[i] = NoTime THEN "pending" ELSE "submitted",
                             appliedAt |-> a[i],
                             updatedAt |-> IF a[i] = NoTime THEN f[i] ELSE a[i]]],
                 !.application_history =
                    [k \in 1..Cardinality({i \in DOMAIN a : a[i] # NoTime}) |->
                        LET i == CHOOSE i \in DOMAIN a :
                                    /\ a[i] # NoTime
                                    /\ Cardinality({h \in 1..i : a[h] # NoTime}) = k
                        IN [applicationId |-> i, oldStatus |-> "pending",
                            newStatus |-> "submitted", changedAt |-> a[i],
                            notes |-> NULL]]]
               : a \in applieds(f)} : f \in ordered}

InitTimeline ==
    /\ db \in TimelineDbs
    /\ now = Feb1 + HalfDay
    /\ foreignKeys = FALSE
    /\ hook = NoEvent
    /\ reply = NoReply
    /\ pending \in [days : TimelineDays]

\* gateway method jobbot.stats.timeline
statsTimeline(days) ==
    /\ reply.op = "none"
    /\ reply' = [NoReply EXCEPT !.op = "stats.timeline",
                                !.args = getTimeline(db, days, now)]
    /\ UNCHANGED <<db, now, foreignKeys, hook, pending>>

NextTimeline == statsTimeline(pending.days)

SpecTimeline == InitTimeline /\ [][NextTimeline]_vars

\* gateway method jobbot.stats.summary
statsSummary ==
    /\ reply' = [NoReply EXCEPT !.op = "stats.summary", !.args = <<getStats(db)>>]
    /\ hook' = NoEvent
    /\ UNCHANGED <<db, now, foreignKeys, pending>>

QueryStatuses == {"interview", "offer", "rejected"}

\* Statistics of a job hunt: postings of two boards are stored, reviewed and
\* applied to, the applications move on, and the summary is asked for at any
\* time.
NextStats ==
    \/ \E l \in AcmeListings \cup {QueryListings[4]} : jobSearch(<<l>>) /\ Bounded(db')
    \/ \E j \in {j \in DOMAIN db.jobs : db.jobs[j].status = "new"} : jobsUpdate(j, "reviewing")
    \/ \E j \in {j \in DOMAIN db.jobs : getApplicationByJobId(db, j) = NoId} :
          applicationsCreate(j) /\ Bounded(db')
    \/ \E a \in pendingApplications(db), st \in QueryStatuses :
          applicationsUpdate(a, st, NULL) /\ Bounded(db')
    \/ statsSummary

SpecStats == Init /\ [][NextStats]_vars

\* the postings of the listed stores, in the order they were found
ListListings ==
    <<QueryListings[1], QueryListings[3], QueryListings[4], QueryListings[2]>>

ListTimes == {1, 2}

\* the stores of a job hunt: job i found at found[i] and "new" or under review,
\* an application to each of the first jobs, pending since the job was found
\* or submitted at applied[i]
ListDbs ==
    LET founds == UNION {[1..n -> ListTimes] : n \in 0..MaxJobs}
        ordered == {f \in founds : \A i, j \in DOMAIN f : i < j => f[i] <= f[j]}
        applieds(f) ==
            {a \in UNION {[1..n -> ListTimes \cup {NoTime}] : n \in 0..MaxApps} :
                /\ Len(a) <= Len(f)
                /\ \A i \in DOMAIN a : a[i] = NoTime \/ a[i] >= f[i]}
    IN UNION {UNION {{[emptyDb EXCEPT
                 !.jobs = [i \in DOMAIN f |->
                            [externalId |-> ListListings[i].externalId,
                             source |-> ListListings[i].source,
                             company |-> ListListings[i].company,
                             discoveredAt |-> f[i],
                             status |-> s[i]]],
                 !.applications = [i \in DOMAIN a |->
                            [jobId |-> i,
                             status |-> IF a[i] = NoTime THEN "pending" ELSE "submitted",
                             appliedAt |-> a[i],
                             updatedAt |-> IF a[i] = NoTime THEN f[i] ELSE a[i]]],
                 !.application_history =
                    [k \in 1..Cardinality({i \in DOMAIN a : a[i] # NoTime}) |->
                        LET i == CHOOSE i \in DOMAIN a :
                                    /\ a[i] # NoTime
                                    /\ Cardinality({h \in 1..i : a[h] # NoTime}) = k
                        IN [applicationId |-> i, oldStatus |-> "pending",
                            newStatus |-> "submitted", changedAt |-> a[i],
                            notes |-> NULL]]]
               : s \in [DOMAIN f -> {"new", "reviewing"}]}
               : a \in applieds(f)} : f \in ordered}

\* a store with a posting of IBM under review and, of Acme, one new posting
\* more than the default limit, created one per tick by store.createJob,
\* without externalId
FullDb ==
    [emptyDb EXCEPT
        !.jobs = [i \in 1..(DefaultLimit + 2) |->
                    [externalId |-> NULL, source |-> "indeed",
                     company |-> IF i = 1 THEN IBM ELSE AcmeCorp,
                     discoveredAt |-> i,
                     status |-> IF i = 1 THEN "reviewing" ELSE "new"]]]

Acme == <<"a", "c", "m", "e">>

\* the parameters of jobbot.jobs.list and of jobbot.applications.list, NULL,
\* NoText and NoNumber for a field left out
ListQueries ==
    [list : {"jobs"}, status : {NULL, "new"}, source : {NULL, "indeed"},
     company : {NoText, Acme}, limit : {NoNumber, 1, 2}, offset : {NoNumber, 1}]
    \cup
    [list : {"applications"}, status : {NULL, "submitted"}, source : {NULL},
     company : {NoText}, limit : {NoNumber, 1, 2}, offset : {NoNumber, 1}]

InitList ==
    /\ db \in ListDbs \cup {FullDb}
    /\ now = DefaultLimit + 2
    /\ foreignKeys = FALSE
    /\ hook = NoEvent
    /\ reply = NoReply
    /\ pending \in ListQueries

\* the orders SQLite may return the rows of a table in, where only rows with
\* equal sort keys have a choice
tieOrders(table, sortedBy) ==
    IF \A a, b \in DOMAIN table : a # b => table[a][sortedBy] # table[b][sortedBy]
    THEN {[a \in DOMAIN table |-> a]}
    ELSE RowOrders(DOMAIN table)

\* gateway method jobbot.jobs.list
jobsList(params) ==
    /\ reply.op = "none"
    /\ params.list = "jobs"
    /\ \E rowOrder \in tieOrders(db.jobs, "discoveredAt") :
          \E jobs \in {listJobs(db, params.status, params.source, params.company,
                                 params.limit, params.offset, rowOrder)} :
             reply' = [NoReply EXCEPT !.op = "jobs.list", !.args = jobs,
                                      !.count = Len(jobs)]
    /\ UNCHANGED <<db, now, foreignKeys, hook, pending>>

\* gateway method jobbot.applications.list
applicationsList(params) ==
    /\ reply.op = "none"
    /\ params.list = "applications"
    /\ \E rowOrder \in tieOrders(db.applications, "updatedAt") :
          \E applications \in {listApplications(db, params.status, params.limit,
                                                 params.offset, rowOrder)} :
             reply' = [NoReply EXCEPT !.op = "applications.list", !.args = applications,
                                      !.count = Len(applications)]
    /\ UNCHANGED <<db, now, foreignKeys, hook, pending>>

NextList ==
    \/ jobsList(pending)
    \/ applicationsList(pending)

SpecList == InitList /\ [][NextList]_vars

\* the callers of the store that run at the same time
Callers == {"c1", "c2"}

\* a caller between two calls; a caller inside a call has the statement it
\* runs next (pc), the id and the status it was called with, the clock it read
\* and the status it read
NoCall ==
    [pc |-> "idle", id |-> NoId, status |-> NULL, t |-> NoTime, oldStatus |-> NULL]

InitCallers ==
    /\ db = emptyDb
    /\ now = 1
    /\ foreignKeys \in BOOLEAN
    /\ hook = NoEvent
    /\ reply = NoReply
    /\ pending = [c \in Callers |-> NoCall]

\* a caller enters setDefaultResume(id)
setDefaultCall(c, id) ==
    /\ pending[c].pc \in {"idle", "done"}
    /\ pending' = [pending EXCEPT ![c] = [NoCall EXCEPT !.pc = "clear", !.id = id]]
    /\ reply' = NoReply
    /\ UNCHANGED <<db, now, foreignKeys, hook>>

\* the caller's first statement runs
setDefaultClear(c) ==
    /\ pending[c].pc = "clear"
    /\ db' = clearDefaultResumes(db)
    /\ pending' = [pending EXCEPT ![c].pc = "set"]
    /\ reply' = NoReply
    /\ UNCHANGED <<now, foreignKeys, hook>>

\* the caller's second statement runs, and the call returns
setDefaultSet(c) ==
    /\ pending[c].pc = "set"
    /\ db' = markDefaultResume(db, pending[c].id)
    /\ pending' = [pending EXCEPT ![c].pc = "done"]
    /\ reply' = NoReply
    /\ UNCHANGED <<now, foreignKeys, hook>>

\* a caller enters updateApplicationStatus(id, status) and reads the clock
updateStatusCall(c, id, status) ==
    /\ pending[c].pc \in {"idle", "done"}
    /\ pending' = [pending EXCEPT ![c] =
                      [NoCall EXCEPT !.pc = "select", !.id = id, !.status = status,
                                     !.t = now]]
    /\ reply' = NoReply
    /\ UNCHANGED <<db, now, foreignKeys, hook>>

\* the caller's getApplication(id): without a row the call returns
updateStatusSelect(c) ==
    /\ pending[c].pc = "select"
    /\ pending' = IF hasApplication(db, pending[c].id)
                  THEN [pending EXCEPT
                           ![c].pc = "update",
                           ![c].oldStatus = db.applications[pending[c].id].status]
                  ELSE [pending EXCEPT ![c].pc = "done"]
    /\ reply' = NoReply
    /\ UNCHANGED <<db, now, foreignKeys, hook>>

\* the caller's UPDATE runs
updateStatusUpdate(c) ==
    /\ pending[c].pc = "update"
    /\ db' = updateApplicationRow(db, pending[c].id, pending[c].status, pending[c].t)
    /\ pending' = [pending EXCEPT ![c].pc = "insert"]
    /\ reply' = NoReply
    /\ UNCHANGED <<now, foreignKeys, hook>>

\* the caller's INSERT runs, and the call returns
updateStatusInsert(c) ==
    /\ pending[c].pc = "insert"
    /\ db' = insertHistoryRow(db, pending[c].id, pending[c].oldStatus,
                              pending[c].status, pending[c].t, NULL)
    /\ pending' = [pending EXCEPT ![c].pc = "done"]
    /\ reply' = NoReply
    /\ UNCHANGED <<now, foreignKeys, hook>>

\* Status updates under concurrent callers: a job is found and applied to, and
\* each caller runs updateApplicationStatus statement by statement, the
\* statements of the two calls in any order, the clock running.
NextSubmit ==
    \/ Tick
    \/ \E l \in ThreadListings : jobSearch(<<l>>) /\ Bounded(db')
    \/ \E j \in DOMAIN db.jobs : applicationsCreate(j) /\ Bounded(db')
    \/ \E c \in Callers, a \in DOMAIN db.applications \cup {UnknownId} :
          updateStatusCall(c, a, "submitted")
    \/ \E c \in Callers : updateStatusSelect(c)
    \/ \E c \in Callers : updateStatusUpdate(c)
    \/ \E c \in Callers : updateStatusInsert(c) /\ Bounded(db')

SpecSubmit == InitCallers /\ [][NextSubmit]_vars

\* the resumes the callers choose among
MaxChoices == 2

\* Default resume under concurrent callers: resumes are uploaded, and each
\* caller runs setDefaultResume statement by statement, the statements of the
\* two calls in any order.
NextDefault ==
    \/ handleUpload /\ db'.resume_ids <= MaxChoices
    \/ \E c \in Callers, id \in DOMAIN db.resumes : setDefaultCall(c, id)
    \/ \E c \in Callers : setDefaultClear(c)
    \/ \E c \in Callers : setDefaultSet(c)

SpecDefault == InitCallers /\ [][NextDefault]_vars

\* the resumes uploaded before applying
MaxUploads == 1

\* Applying: jobs are found, a resume is uploaded, and job_apply and the
\* gateway's jobbot.applications.create are called in any order, for stored
\* jobs and for ids no job has.
NextApply ==
    \/ \E l \in AcmeListings : jobSearch(<<l>>) /\ BoundedMail(db')
    \/ handleUpload /\ db'.resume_ids <= MaxUploads
    \/ \E j \in DOMAIN db.jobs \cup {UnknownId} :
          \E r \in DOMAIN db.resumes \cup {NoId, UnknownId} :
             \E confirm \in BOOLEAN, dryRun \in BOOLEAN :
                jobApply(j, r, confirm, dryRun) /\ BoundedMail(db')
    \/ \E j \in DOMAIN db.jobs \cup {NoId, UnknownId} :
          applicationsCreate(j) /\ BoundedMail(db')

SpecApply == Init /\ [][NextApply]_vars

\* ---------------------------------------------------------------------------
\* Properties
\* ---------------------------------------------------------------------------
defaultResumes(d) == {r \in DOMAIN d.resumes : d.resumes[r].isDefault}

\* the history rows of one application, oldest first
historyOf(d, a) == SelectSeq(d.application_history, LAMBDA r : r.applicationId = a)

\* C1: after any sequence of createResume, setDefaultResume and deleteResume
\* calls at most one resume has is_default = true.
C1_AtMostOneDefault == Cardinality(defaultResumes(db)) <= 1

\* a later resume took the default over from an earlier one that still exists
C1_Witness ==
    \E r1, r2 \in DOMAIN db.resumes :
        r1 < r2 /\ defaultResumes(db) = {r2} /\ Cardinality(DOMAIN db.resumes) >= 3

\* C2: applied_at is stamped by the first update that sets "submitted", with
\* the time of that update, and once set it is never changed by any step.
C2_AppliedAtSetOnce ==
    [][\A a \in DOMAIN db.applications :
          LET old == db.applications[a]
              new == db'.applications[a]
          IN /\ old.appliedAt # NoTime => new.appliedAt = old.appliedAt
             /\ old.appliedAt = NoTime /\ new.appliedAt # NoTime =>
                   old.status # "submitted" /\ new.status = "submitted" /\ new.appliedAt = now
             /\ old.status # "submitted" /\ new.status = "submitted" /\ old.appliedAt = NoTime =>
                   new.appliedAt = now]_vars

\* an application submitted twice, at different times, keeps the first stamp
C2_Witness ==
    \E a \in DOMAIN db.applications :
        LET h == historyOf(db, a)
        IN \E i, j \in 1..Len(h) :
              /\ i < j
              /\ h[i].newStatus = "submitted" /\ h[j].newStatus = "submitted"
              /\ h[i].changedAt < h[j].changedAt
              /\ \A k \in 1..(i - 1) : h[k].newStatus # "submitted"
              /\ db.applications[a].appliedAt = h[i].changedAt

\* C3: a step appends a history row for an application exactly when it changes
\* that application's status, the row carries the status before and after, and
\* the rows of an application chain from "pending" to its current status.
C3_OneRecordPerStatusChange ==
    [][\A a \in DOMAIN db.applications :
          LET before == historyOf(db, a)
              after == historyOf(db', a)
              changed == db'.applications[a].status # db.applications[a].status
          IN /\ changed =>
                   /\ Len(after) = Len(before) + 1
                   /\ after[Len(after)].oldStatus = db.applications[a].status
                   /\ after[Len(after)].newStatus = db'.applications[a].status
             /\ ~changed => after = before
             /\ \A i \in 1..Len(after) :
                   /\ after[i].oldStatus = (IF i = 1 THEN "pending" ELSE after[i - 1].newStatus)
                   /\ i = Len(after) => after[i].newStatus = db'.applications[a].status]_vars

\* --- the matching rule, as stated ------------------------------------------
\* the whitespace-separated words of a text: its maximal runs of other characters
wordsOf(text) ==
    {SubSeq(text, p[1], p[2]) :
        p \in {q \in (1..Len(text)) \X (1..Len(text)) :
                  /\ q[1] <= q[2]
                  /\ \A k \in q[1]..q[2] : ~isWhitespace(text[k])
                  /\ q[1] = 1 \/ isWhitespace(text[q[1] - 1])
                  /\ q[2] = Len(text) \/ isWhitespace(text[q[2] + 1])}}

\* w is a substring of text, letter case ignored
occursIn(w, text) ==
    \E i \in 1..(Len(text) - Len(w) + 1) :
        \A k \in 1..Len(w) : lowerChar(text[i + k - 1]) = lowerChar(w[k])

\* the part of the sender after its first "@", up to the first dot
domainFragment(from) ==
    LET ats == {i \in 1..Len(from) : from[i] = "@"}
    IN IF ats = {} THEN <<>>
       ELSE LET at == CHOOSE i \in ats : \A j \in ats : i <= j
                ends == {i \in (at + 1)..Len(from) : from[i] = "." \/ from[i] = "@"}
                end == IF ends = {} THEN Len(from) + 1
                       ELSE CHOOSE i \in ends : \A j \in ends : i <= j
            IN SubSeq(from, at + 1, end - 1)

companyNamed(company, email) ==
    \E w \in wordsOf(company) :
        /\ Len(w) > 3
        /\ \/ occursIn(w, domainFragment(email.from))
           \/ occursIn(w, email.from)
           \/ occursIn(w, email.subject)

CompanyNamedTable == [c \in Companies, e \in AllEvents |-> companyNamed(c, e)]

\* the application is a candidate whose job resolves to a company the email names
namedCandidate(d, a, email) ==
    /\ d.applications[a].status \in {"submitted", "interview"}
    /\ hasJob(d, d.applications[a].jobId)
    /\ CompanyNamedTable[d.jobs[d.applications[a].jobId].company, email]

\* C4: an application at "offer" keeps its status through an email classified
\* "interview", and an application at "rejected" keeps its status through every
\* email.
C4_Monotonic ==
    [][hook'.handled = "processed" =>
          \A a \in DOMAIN db.applications :
              /\ db.applications[a].status = "offer" /\ ClassTable[hook'.event] = "interview"
                    => db'.applications[a].status = "offer"
              /\ db.applications[a].status = "rejected"
                    => db'.applications[a].status = "rejected"]_vars

\* an interview email naming the company of an application at "offer" and of
\* an application at "rejected" has been processed
C4_Witness ==
    /\ hook.handled = "processed"
    /\ ClassTable[hook.event] = "interview"
    /\ \E a, b \in DOMAIN db.applications :
          /\ db.applications[a].status = "offer"
          /\ db.applications[b].status = "rejected"
          /\ \A x \in {a, b} :
                /\ hasJob(db, db.applications[x].jobId)
                /\ CompanyNamedTable[db.jobs[db.applications[x].jobId].company, hook.event]

\* the transition table, as stated
statusAfter(s, c) ==
    IF c = "offer" THEN "offer"
    ELSE IF c = "rejection" THEN "rejected"
    ELSE IF c = "interview" /\ s \notin {"interview", "offer"} THEN "interview"
    ELSE IF c = "generic" /\ s = "submitted" THEN "viewed"
    ELSE s

\* the status update of processEmailNotification computes the table, for every
\* status and classification
policyIsTable ==
    \A s \in ApplicationStatuses, c \in {"offer", "interview", "rejection", "generic"} :
        LET newStatus == responseTypeToStatus(c, s)
        IN statusAfter(s, c) = IF newStatus # NULL /\ newStatus # s THEN newStatus ELSE s

\* C5: the status of the matched application after an email is the entry of
\* the transition table for its status before and the email's classification.
C5_TransitionTable ==
    [][/\ policyIsTable
       /\ hook'.handled = "processed" /\ hook'.matched # NoId =>
             db'.applications[hook'.matched].status =
                 statusAfter(db.applications[hook'.matched].status, hook'.responseType)]_vars

\* a generic email matched an application at "interview" and left it there
C5_Witness ==
    /\ hook.handled = "processed"
    /\ hook.matched # NoId
    /\ hook.responseType = "generic"
    /\ db.applications[hook.matched].status = "interview"
    /\ \E x \in DOMAIN db.email_threads : db.email_threads[x].applicationId = hook.matched

\* C6: an application is matched to an email only in status submitted or
\* interview, and every application in one of these statuses is considered: an
\* email that names the company of one of them is matched to an application.
C6_EveryCandidateConsidered ==
    [][hook'.handled = "processed" =>
          /\ hook'.matched # NoId =>
                db.applications[hook'.matched].status \in {"submitted", "interview"}
          /\ (\E a \in DOMAIN db.applications : namedCandidate(db, a, hook'.event))
                => hook'.matched # NoId]_vars

\* C7: a candidate matches an email exactly when its job resolves and a word
\* of the job's company longer than 3 characters occurs, letter case ignored,
\* in the sender's domain fragment, the sender or the subject; the application
\* an email is matched to is such a candidate.
C7_MatchRule ==
    [][/\ \A a \in DOMAIN db.applications, e \in Events :
             applicationMatches(db, a, e, MatchTable) <=>
                /\ hasJob(db, db.applications[a].jobId)
                /\ CompanyNamedTable[db.jobs[db.applications[a].jobId].company, e]
       /\ hook'.handled = "processed" /\ hook'.matched # NoId =>
             namedCandidate(db, hook'.matched, hook'.event)]_vars

\* an email naming the company only in its subject, in another letter case, was
\* matched while a submitted application with no job row was not
C7_Witness ==
    /\ hook.handled = "processed"
    /\ hook.matched # NoId
    /\ ~occursIn(<<"a", "c", "m", "e">>, hook.event.from)
    /\ \E a \in DOMAIN db.applications :
          /\ a # hook.matched
          /\ db.applications[a].status = "submitted"
          /\ ~hasJob(db, db.applications[a].jobId)

\* a comes before b in the iteration: submitted before interview, and within
\* one status the more recently updated first
iteratedBefore(d, a, b) ==
    \/ d.applications[a].status = "submitted" /\ d.applications[b].status = "interview"
    \/ /\ d.applications[a].status = d.applications[b].status
       /\ d.applications[a].updatedAt > d.applications[b].updatedAt

\* C8: processing one email leaves every application but the matched one as
\* it was, changes the status of at most one, and no candidate the email names
\* comes before the matched one in the iteration.
C8_FirstMatchOnly ==
    [][hook'.handled = "processed" =>
          /\ \A a \in DOMAIN db.applications :
                a # hook'.matched => db'.applications[a] = db.applications[a]
          /\ Cardinality({a \in DOMAIN db.applications :
                            db'.applications[a].status # db.applications[a].status}) <= 1
          /\ hook'.matched # NoId =>
                \A b \in DOMAIN db.applications :
                    namedCandidate(db, b, hook'.event) => ~iteratedBefore(db, b, hook'.matched)]_vars

\* C9: an email that matches no candidate leaves the store as it was.
C9_NoMatchNoChange ==
    [][/\ hook'.handled = "processed"
       /\ \A a \in DOMAIN db.applications : ~namedCandidate(db, a, hook'.event)
       => db' = db]_vars

\* an email of a company with a three-letter name was processed and matched
\* nothing, with a submitted application to that company in the store
C9_Witness ==
    /\ hook.handled = "processed"
    /\ hook.matched = NoId
    /\ hook.event.from = FromIBM
    /\ \E a \in DOMAIN db.applications :
          /\ db.applications[a].status = "submitted"
          /\ hasJob(db, db.applications[a].jobId)
          /\ db.jobs[db.applications[a].jobId].company = IBM

\* --- classification, as stated ---------------------------------------------
\* the text scanned: subject and body
scannedText(email) == email.subject \o <<" ">> \o email.body

\* the classes with a keyword in the text, letter case of the text ignored
classesFound(email) ==
    {c \in {"offer", "interview", "rejection"} :
        \E kw \in (CASE c = "offer" -> OFFER_KEYWORDS
                     [] c = "interview" -> INTERVIEW_KEYWORDS
                     [] OTHER -> REJECTION_KEYWORDS) :
            occursIn(kw, scannedText(email))}

priority == <<"offer", "interview", "rejection">>

\* the class of highest priority among those found, "generic" when none is
firstByPriority(found) ==
    IF found = {} THEN "generic"
    ELSE priority[CHOOSE i \in 1..Len(priority) :
                     /\ priority[i] \in found
                     /\ \A j \in 1..(i - 1) : priority[j] \notin found]

\* C10: the class of an email is the class of highest priority, offer over
\* interview over rejection, with a keyword in its lower-cased subject and
\* body, and generic when no keyword occurs.
C10_StrictPriority ==
    hook.handled = "classified" => hook.responseType = firstByPriority(classesFound(hook.event))

\* an email with keywords of all three lists, in upper and lower case, was
\* classified as an offer
C10_Witness ==
    /\ hook.handled = "classified"
    /\ hook.responseType = "offer"
    /\ classesFound(hook.event) = {"offer", "interview", "rejection"}
    /\ hook.event.subject # toLowerCase(hook.event.subject)

\* the stored threads with the provider thread id of the email
threadsOf(d, email) ==
    {x \in DOMAIN d.email_threads :
        email.gmailThreadId # NULL /\ d.email_threads[x].gmailThreadId = email.gmailThreadId}

C12_MessageCountGrows ==
    [][/\ \A x \in DOMAIN db'.email_threads : db'.email_threads[x].messageCount >= 1
       /\ \A x \in DOMAIN db.email_threads :
             /\ x \in DOMAIN db'.email_threads
             /\ db'.email_threads[x].messageCount >= db.email_threads[x].messageCount]_vars

\* a thread was opened by one email and counted a second, not an interview one
C12_Witness ==
    /\ hook.handled = "processed"
    /\ hook.responseType = "generic"
    /\ \E x \in threadsOf(db, hook.event) :
          /\ db.email_threads[x].messageCount >= 2
          /\ db.email_threads[x].status = "active"


\* the rows of a posting: those with its external id and source
jobsWith(d, externalId, source) ==
    {j \in DOMAIN d.jobs :
        d.jobs[j].externalId = externalId /\ d.jobs[j].source = source}

\* C13: whatever scans and job_search calls do, in whatever order, no two
\* Jobs share an (external_id, source) pair, and a listing already stored
\* adds no row
C13_NoDuplicateJobs ==
    [][\A l \in ScanListings :
          /\ Cardinality(jobsWith(db', l.externalId, l.source)) <= 1
          /\ jobsWith(db, l.externalId, l.source) # {}
                => jobsWith(db', l.externalId, l.source)
                      = jobsWith(db, l.externalId, l.source)]_vars

\* a scan's search found only stored listings and added nothing, the same
\* posting being stored once for each board
C13_Witness ==
    /\ reply.op = "scan_job_board"
    /\ reply.found = MaxBatch
    /\ reply.count = 0
    /\ pending.logged = 0
    /\ jobsWith(db, "e1", "indeed") # {}
    /\ jobsWith(db, "e1", "linkedin") # {}
    /\ \A i \in 1..Len(pending.batch) : pending.batch[i].externalId = "e1"

\* C20: a failure while scanning one source or storing one job is caught and
\* logged, and every remaining source and job of the batch is still processed:
\* the scan goes on to its next search, and every other listing of the failed
\* search that passes the filters is in the store
C20_RestOfBatchProcessed ==
    [][reply'.op = "scan_job_board"
          => /\ pending'.running
             /\ pending'.rest = Tail(pending.rest)
             /\ ~reply'.ok => pending'.logged = pending.logged + 1
             /\ \A i \in 1..Len(pending'.batch) :
                   LET job == pending'.batch[i]
                   IN (/\ PassTable[pending'.config][job]
                       /\ pending'.failAt # 0 => job # pending'.batch[pending'.failAt])
                         => jobsWith(db', job.externalId, job.source) # {}]_vars

\* the applications to a job
applicationsOf(d, jobId) ==
    {a \in DOMAIN d.applications : d.applications[a].jobId = jobId}

\* C14: after any sequence of job_apply and jobbot.applications.create calls a
\* Job has at most one Application, and jobbot.applications.create for a Job
\* that has one answers with an error and creates nothing
C14_OneApplicationPerJob ==
    [][/\ \A a \in DOMAIN db'.applications :
             Cardinality(applicationsOf(db', db'.applications[a].jobId)) = 1
       /\ (/\ reply'.op = "applications.create"
           /\ applicationsOf(db, reply'.args[1]) # {})
             => /\ ~reply'.ok
                /\ reply'.error # NULL
                /\ db' = db]_vars

\* jobbot.applications.create was rejected for a job that job_apply or an
\* earlier create had given its application
C14_Witness ==
    /\ reply.op = "applications.create"
    /\ ~reply.ok
    /\ reply.error = "Application already exists for this job"
    /\ reply.args[1] \in DOMAIN db.jobs
    /\ \E a \in applicationsOf(db, reply.args[1]) : db.applications[a].status = "submitted"
    /\ Cardinality(DOMAIN db.applications) = MaxApps

\* C15: job_apply submits, the Application "submitted" and the Job "applied",
\* only when confirm is true and dry_run is false; any other call leaves the
\* Job's status and every stored Application as they were, and an Application it
\* creates is pending
C15_SubmitOnlyWhenConfirmed ==
    [][reply'.op = "job_apply"
          => LET jobId == reply'.args[1]
                 confirm == reply'.args[3]
                 dryRun == reply'.args[4]
             IN /\ reply'.status = "submitted"
                     => /\ confirm /\ ~dryRun
                        /\ db'.jobs[jobId].status = "applied"
                        /\ \A a \in applicationsOf(db', jobId) :
                               db'.applications[a].status = "submitted"
                /\ ~(confirm /\ ~dryRun)
                     => /\ db'.jobs = db.jobs
                        /\ db'.application_history = db.application_history
                        /\ \A a \in DOMAIN db.applications :
                               /\ a \in DOMAIN db'.applications
                               /\ db'.applications[a] = db.applications[a]
                        /\ \A a \in DOMAIN db'.applications \ DOMAIN db.applications :
                               /\ db'.applications[a].status = "pending"
                               /\ db'.applications[a].jobId = jobId]_vars

\* a confirmed call with dry_run set previewed: the Application it made is
\* pending and the Job is still new
C15_Witness ==
    /\ reply.op = "job_apply"
    /\ reply.args[3]
    /\ reply.args[4]
    /\ reply.status = "pending_confirmation"
    /\ db.jobs[reply.args[1]].status = "new"
    /\ \E a \in applicationsOf(db, reply.args[1]) :
          db.applications[a].status = "pending"

\* C16: setDefaultResume is atomic for concurrent callers: when two calls, for
\* existing resumes a # b, have both returned, exactly one resume is default,
\* in whatever order their clear and set statements ran
C16_ConcurrentDefaultsOne ==
    \A c1, c2 \in Callers :
       (/\ pending[c1].pc = "done"
        /\ pending[c2].pc = "done"
        /\ pending[c1].id # pending[c2].id)
          => Cardinality(defaultResumes(db)) = 1

\* C17: when two updateApplicationStatus(id, "submitted") calls on a pending
\* Application run their statements in any order, applied_at is stamped once:
\* the first UPDATE writes the clock its call read, and no later statement
\* changes it
C17_StampedOnceInterleaved ==
    [][\A a \in DOMAIN db.applications :
          /\ db.applications[a].appliedAt # NoTime
                => db'.applications[a].appliedAt = db.applications[a].appliedAt
          /\ (/\ db.applications[a].appliedAt = NoTime
              /\ db'.applications[a].appliedAt # NoTime)
                => \E c \in Callers :
                      /\ pending[c].pc = "update"
                      /\ pending'[c].pc = "insert"
                      /\ pending[c].id = a
                      /\ pending[c].status = "submitted"
                      /\ db'.applications[a].appliedAt = pending[c].t]_vars

\* both calls read the Application pending before either wrote, and the call
\* that wrote second left applied_at as the first had stamped it
C17_Witness ==
    \E c1, c2 \in Callers :
       /\ c1 # c2
       /\ pending[c1].pc = "done" /\ pending[c2].pc = "done"
       /\ pending[c1].id = pending[c2].id
       /\ pending[c1].id \in DOMAIN db.applications
       /\ pending[c1].status = "submitted" /\ pending[c2].status = "submitted"
       /\ pending[c1].oldStatus = "pending" /\ pending[c2].oldStatus = "pending"
       /\ pending[c1].t # pending[c2].t
       /\ db.applications[pending[c1].id].appliedAt = pending[c1].t
       /\ db.applications[pending[c1].id].updatedAt = pending[c2].t

\* the store after the events of a burst, handled one after the other in
\* arrival order
RECURSIVE inArrivalOrder(_, _, _)
inArrivalOrder(d, arrived, i) ==
    IF i > Len(arrived) THEN d
    ELSE inArrivalOrder(
             processEmailFailing(d, arrived[i].event, arrived[i].rowOrder, arrived[i].t,
                                 arrived[i].failAt, MatchTable, ClassTable).db,
             arrived, i + 1)

\* every history row of an application starts from the status the row before
\* it ended in, the first from "pending"
historyChained(d) ==
    \A a \in DOMAIN d.applications :
       LET rows == historyOf(d, a)
       IN \A i \in 1..Len(rows) :
             rows[i].oldStatus = IF i = 1 THEN "pending" ELSE rows[i - 1].newStatus

C19_FailureDoesNotBlock ==
    [][/\ (/\ pending.unsettled # <<>>
           /\ Head(pending.unsettled) = "threw"
           /\ pending'.unsettled = Tail(pending.unsettled))
             => /\ pending'.logged = pending.logged + 1
                /\ pending'.alive
                /\ db' = db
       /\ (/\ Len(pending'.unsettled) > Len(pending.unsettled)
           /\ pending'.arrived[Len(pending'.arrived)].failAt = "none")
             => LET last == pending'.arrived[Len(pending'.arrived)]
                IN db' = processEmailNotification(db, last.event, last.rowOrder, now,
                                                  MatchTable, ClassTable).db]_vars

\* after a logged failure a matching email was handled: its thread is stored
C19_Witness ==
    /\ pending.logged = 1
    /\ pending.alive
    /\ pending.unsettled = <<"ok">>
    /\ hook.handled = "processed"
    /\ hook.matched # NoId
    /\ threadsOf(db, hook.event) # {}

\* C21: after stop() and until start() is called again no timer starts a scan
\* run; stop() leaves a scan in flight as it is, and a scan in flight runs to
\* its end
C21_NoScanAfterStop ==
    /\ [][(\/ pending'.running /\ ~pending.running
           \/ reply'.op = "scan" /\ ~pending.running)
             => pending.isRunning]_vars
    /\ [][(pending.isRunning /\ ~pending'.isRunning)
             => /\ pending'.running = pending.running
                /\ pending'.rest = pending.rest
                /\ db' = db]_vars
    /\ (pending.running ~> ~pending.running)

\* the service was stopped while its scan was in flight and with an
\* initial-delay timer still to fire; the scan has since stored a job
C21_Witness ==
    /\ ~pending.isRunning
    /\ pending.running
    /\ pending.initialTimers > 0
    /\ ~pending.scanInterval
    /\ reply.op = "scan_job_board"
    /\ reply.count = 1

\* C22: after the email monitor's stop() the hook is unregistered: an event
\* that arrives then changes no Application and creates or updates no
\* EmailThread
C22_StoppedHookSilent ==
    [][(/\ reply.op = "monitor.stop"
        /\ Len(pending'.arrived) > 0
        /\ pending'.arrived # pending.arrived)
          => db' = db]_vars

\* C23: updateApplicationStatus and updateJobStatus with an id the store does
\* not hold raise no error, change no row and append no history record
C23_UnknownIdNoOp ==
    [][((reply'.op = "applications.update" \/ reply'.op = "jobs.update")
            /\ reply'.found = NoId)
          => /\ db' = db
             /\ reply'.ok
             /\ reply'.error = NULL]_vars

C23_Witness ==
    /\ reply.op = "applications.update"
    /\ reply.found = NoId
    /\ \E a \in DOMAIN db.applications : db.applications[a].status = "submitted"
    /\ db.application_history # <<>>
    /\ \E j \in DOMAIN db.jobs : db.jobs[j].status = "archived"

\* C24: a newly created Job has status "new"; a newly created Application has
\* status "pending", no applied_at and no history record.  (job_apply, when
\* it submits, creates the Application and updates it in one call: its first
\* history record then starts from "pending".)
C24_CreatedNewAndPending ==
    [][/\ \A j \in DOMAIN db'.jobs \ DOMAIN db.jobs : db'.jobs[j].status = "new"
       /\ \A a \in DOMAIN db'.applications \ DOMAIN db.applications :
             IF reply'.op = "job_apply" /\ reply'.status = "submitted"
             THEN /\ historyOf(db', a) # <<>>
                  /\ historyOf(db', a)[1].oldStatus = "pending"
                  /\ db'.applications[a].appliedAt = now
             ELSE /\ db'.applications[a].status = "pending"
                  /\ db'.applications[a].appliedAt = NoTime
                  /\ historyOf(db', a) = <<>>]_vars

C24_Witness ==
    /\ reply.op = "applications.create"
    /\ reply.ok
    /\ Cardinality(DOMAIN db.applications) = 2
    /\ db.application_history # <<>>
    /\ \E a \in DOMAIN db.applications :
          /\ db.applications[a].status = "pending"
          /\ db.applications[a].appliedAt = NoTime
          /\ historyOf(db, a) = <<>>
          /\ hasJob(db, db.applications[a].jobId)
          /\ db.jobs[db.applications[a].jobId].status = "new"

\* C25: deleting a Resume, through the resume_manage tool or through
\* jobbot.resumes.delete, removes the database record and the file
C25_DeleteRemovesFile ==
    [][(reply'.op \in {"resume_manage.delete", "resumes.delete"}
            /\ reply'.found # NoId /\ reply'.ok)
          => /\ ~hasResume(db', reply'.found)
             /\ ~existsSync(db', reply'.found)]_vars

\* C26: when removing the file fails, resume_manage's delete still succeeds:
\* the record is removed and no error is reported
C26_DeleteSurvivesUnlink ==
    [][(reply'.op = "resume_manage.delete" /\ hasResume(db, reply'.found))
          => /\ ~hasResume(db', reply'.found)
             /\ reply'.ok
             /\ reply'.error = NULL]_vars

C26_Witness ==
    /\ reply.op = "resume_manage.delete"
    /\ reply.ok
    /\ ~hasResume(db, reply.found)
    /\ existsSync(db, reply.found)
    /\ db.resumes # EmptyTable

\* C27: an email-driven transition is persisted only when the target status
\* differs from the current one, by updateApplicationStatus with the notes
\* "Email response classified as: {type}"; a matched email that does not
\* change the status appends no history record
C27_PersistedOnlyOnChange ==
    [][(hook'.handled = "processed" /\ hook'.matched # NoId)
          => LET a == hook'.matched
                 old == db.applications[a].status
                 target == responseTypeToStatus(hook'.responseType, old)
             IN IF target # NULL /\ target # old
                THEN /\ db'.applications[a].status = target
                     /\ db'.applications[a].updatedAt = now
                     /\ db'.application_history =
                           Append(db.application_history,
                                  [applicationId |-> a,
                                   oldStatus |-> old,
                                   newStatus |-> target,
                                   changedAt |-> now,
                                   notes |-> classifiedNotes(hook'.responseType)])
                ELSE /\ db'.applications = db.applications
                     /\ db'.application_history = db.application_history]_vars

\* a second interview invitation, on a later day, to an application that an
\* earlier invitation moved to "interview"
C27_Witness ==
    /\ hook.handled = "processed"
    /\ hook.matched # NoId
    /\ hook.responseType = "interview"
    /\ db.applications[hook.matched].status = "interview"
    /\ db.applications[hook.matched].updatedAt < now
    /\ Len(historyOf(db, hook.matched)) = 2
    /\ historyOf(db, hook.matched)[2].notes = classifiedNotes("interview")

\* C28: getTimeline(days) returns exactly one entry for each calendar date on
\* which, at or after the cutoff now - days, a Job was discovered or an
\* Application was applied for; the entry counts the Jobs and the Applications
\* of its date, 0 where it has none; the entries ascend by date
timelineJobsOn(day) ==
    {j \in DOMAIN db.jobs :
        /\ db.jobs[j].discoveredAt >= now - pending.days * DayMs
        /\ db.jobs[j].discoveredAt \div DayMs = day}

timelineAppsOn(day) ==
    {a \in DOMAIN db.applications :
        /\ db.applications[a].appliedAt # NoTime
        /\ db.applications[a].appliedAt >= now - pending.days * DayMs
        /\ db.applications[a].appliedAt \div DayMs = day}

\* the days, counted from January 1st 1970, and the text of each
TimelineCalendar ==
    [day \in {t \div DayMs : t \in TimelineTimes} |->
        date(CHOOSE t \in TimelineTimes : t \div DayMs = day)]

C28_TimelineExact ==
    reply.op = "stats.timeline" =>
        LET timeline == reply.args
            active == {day \in DOMAIN TimelineCalendar :
                          timelineJobsOn(day) # {} \/ timelineAppsOn(day) # {}}
        IN /\ Len(timeline) = Cardinality(active)
           /\ \A day \in active :
                 \E i \in DOMAIN timeline :
                    /\ timeline[i].date = TimelineCalendar[day]
                    /\ timeline[i].jobsDiscovered = Cardinality(timelineJobsOn(day))
                    /\ timeline[i].applicationsSubmitted = Cardinality(timelineAppsOn(day))
           /\ \A i, j \in DOMAIN timeline :
                 i < j => \E di, dj \in active :
                             /\ TimelineCalendar[di] = timeline[i].date
                             /\ TimelineCalendar[dj] = timeline[j].date
                             /\ di < dj

\* since yesterday noon: a job found at the cutoff, one found before it on the
\* same day, and an application submitted on a day no job was found
C28_Witness ==
    /\ reply.op = "stats.timeline"
    /\ pending.days = 1
    /\ Len(reply.args) = 2
    /\ reply.args[1].jobsDiscovered = 1
    /\ reply.args[1].applicationsSubmitted = 0
    /\ reply.args[2].jobsDiscovered = 0
    /\ reply.args[2].applicationsSubmitted = 1
    /\ \E j, k \in DOMAIN db.jobs :
          /\ db.jobs[j].discoveredAt = Jan31
          /\ db.jobs[k].discoveredAt = Jan31 + HalfDay
    /\ \E a \in DOMAIN db.applications : db.applications[a].status = "pending"

\* C29: getStats: totalJobs is the number of Jobs; pendingApplications,
\* interviewsScheduled, offersReceived and rejections are the numbers of
\* Applications in "pending", "interview", "offer" and "rejected"; the counts
\* of byStatus and those of bySource each sum to totalJobs
RECURSIVE sumOf(_)
sumOf(counts) ==
    IF DOMAIN counts = {} THEN 0
    ELSE LET k == CHOOSE k \in DOMAIN counts : TRUE
         IN counts[k] + sumOf([x \in DOMAIN counts \ {k} |-> counts[x]])

applicationsIn(status) ==
    Cardinality({a \in DOMAIN db.applications : db.applications[a].status = status})

C29_StatsCount ==
    reply.op = "stats.summary" =>
        LET stats == reply.args[1]
        IN /\ stats.totalJobs = Cardinality(DOMAIN db.jobs)
           /\ stats.pendingApplications = applicationsIn("pending")
           /\ stats.interviewsScheduled = applicationsIn("interview")
           /\ stats.offersReceived = applicationsIn("offer")
           /\ stats.rejections = applicationsIn("rejected")
           /\ sumOf(stats.byStatus) = stats.totalJobs
           /\ sumOf(stats.bySource) = stats.totalJobs

\* two postings of one board, one of them reviewed, one application at an
\* interview and one still pending
C29_Witness ==
    /\ reply.op = "stats.summary"
    /\ reply.args[1].totalJobs = 2
    /\ reply.args[1].interviewsScheduled = 1
    /\ reply.args[1].pendingApplications = 1
    /\ reply.args[1].rejections = 0
    /\ DOMAIN reply.args[1].bySource = {"indeed"}
    /\ DOMAIN reply.args[1].byStatus = {"new", "reviewing"}

\* C30: listJobs and listApplications return only entities that pass every
\* filter given, most recent first (discovered_at for Jobs, updated_at for
\* Applications), after skipping offset of them, at most limit of them and
\* 100 when no limit is given; a filter left out restricts nothing
passing(table, params) ==
    {x \in DOMAIN table :
        /\ params.status = NULL \/ table[x].status = params.status
        /\ params.source = NULL \/ table[x].source = params.source
        /\ params.company = NoText
             \/ \E i \in 0..Len(table[x].company) :
                   \A k \in 1..Len(params.company) :
                      /\ i + k <= Len(table[x].company)
                      /\ lowerChar(table[x].company[i + k]) = lowerChar(params.company[k])}

\* listed is the page of the passing rows of table that params ask for
isPage(listed, table, params, key) ==
    LET all == passing(table, params)
        shown == {listed[i] : i \in DOMAIN listed}
        hidden == all \ shown
        lim == IF params.limit = NoNumber THEN 100 ELSE params.limit
        off == IF params.offset = NoNumber THEN 0 ELSE params.offset
        left == IF Cardinality(all) > off THEN Cardinality(all) - off ELSE 0
    IN /\ shown \subseteq all
       /\ Cardinality(shown) = Len(listed)
       /\ Len(listed) = IF left < lim THEN left ELSE lim
       /\ \A i, j \in DOMAIN listed : i < j => table[listed[i]][key] >= table[listed[j]][key]
       /\ listed # <<>> =>
             LET hi == table[listed[1]][key]
                 lo == table[listed[Len(listed)]][key]
                 newer == {x \in hidden : table[x][key] > lo}
             IN /\ \A x \in newer : table[x][key] >= hi
                /\ Cardinality(newer) <= off
                /\ off <= Cardinality({x \in hidden : table[x][key] >= hi})

C30_ListsFiltered ==
    /\ reply.op = "jobs.list" => isPage(reply.args, db.jobs, pending, "discoveredAt")
    /\ reply.op = "applications.list" =>
          isPage(reply.args, [a \in DOMAIN db.applications |->
                                [status |-> db.applications[a].status,
                                 source |-> NULL, company |-> NoText,
                                 updatedAt |-> db.applications[a].updatedAt]],
                 pending, "updatedAt")

\* Acme's new postings on indeed, no limit given, in a store that holds one
\* more of them than the default limit and a posting of IBM: the hundred most
\* recent
C30_Witness ==
    /\ reply.op = "jobs.list"
    /\ pending.status = "new" /\ pending.source = "indeed" /\ pending.company = Acme
    /\ pending.limit = NoNumber /\ pending.offset = NoNumber
    /\ Cardinality(passing(db.jobs, pending)) = 101
    /\ Cardinality(DOMAIN db.jobs) = 102
    /\ Len(reply.args) = 100
    /\ reply.args[1] = 102
    /\ reply.args[100] = 3

\* C31: no operation removes a Job, an Application, an EmailThread or a
\* history record, and a stored history record is never modified: the tables
\* only grow
C31_OnlyGrow ==
    [][/\ DOMAIN db.jobs \subseteq DOMAIN db'.jobs
       /\ DOMAIN db.applications \subseteq DOMAIN db'.applications
       /\ DOMAIN db.email_threads \subseteq DOMAIN db'.email_threads
       /\ Len(db.application_history) <= Len(db'.application_history)
       /\ SubSeq(db'.application_history, 1, Len(db.application_history))
             = db.application_history]_vars

\* an application submitted and then moved on by mail of a thread that two
\* messages belong to
C31_Witness ==
    /\ Len(db.application_history) >= 2
    /\ \E a \in DOMAIN db.applications : Len(historyOf(db, a)) >= 2
    /\ \E x \in DOMAIN db.email_threads : db.email_threads[x].messageCount = 2
    /\ hook.handled = "processed"

\* the listing a stored job was made from
listingOf(job) ==
    CHOOSE l \in PrefListings : l.externalId = job.externalId /\ l.source = job.source

\* the jobs a step stored
storedBy(before, after) == {after.jobs[j] : j \in DOMAIN after.jobs \ DOMAIN before.jobs}

containsWord(text, words) ==
    \E w \in words : \E i \in 0..Len(text) : \A k \in 1..Len(w) :
        i + k <= Len(text) /\ lowerChar(text[i + k]) = lowerChar(w[k])

\* C32: no Job stored by a scheduled scan or by job_search using preferences
\* has a company matching an entry of excludeCompanies, or a title or
\* description containing an entry of excludeKeywords
C32_ExclusionsRespected ==
    [][(reply'.op \in {"scan_job_board", "job_search"})
          => \A job \in storedBy(db, db') : \A config \in PrefConfigs :
                /\ ~containsWord(job.company, config.preferences.excludeCompanies)
                /\ ~containsWord(listingOf(job).title, config.preferences.excludeKeywords)
                /\ ~containsWord(listingOf(job).description,
                                 config.preferences.excludeKeywords)]_vars

\* C33: with preferences.keywords non-empty, every Job a scheduled scan stores
\* contains one of those keywords
C33_KeywordsRequired ==
    [][(reply'.op = "scan_job_board")
          => \A job \in storedBy(db, db') :
                pending.config.preferences.keywords # {}
                  => \/ containsWord(listingOf(job).title,
                                     pending.config.preferences.keywords)
                     \/ containsWord(listingOf(job).description,
                                     pending.config.preferences.keywords)]_vars

\* C34: updateApplicationStatus is atomic under storage failure: when the
\* history insert fails after the UPDATE, the operation fails as a whole and
\* the Application keeps its status
C34_UpdateAtomic ==
    [][(reply'.op = "applications.update" /\ ~reply'.ok) => db' = db]_vars

\* the applications a generic email moved from submitted to viewed, with no
\* change of status since
viewedByMail(d) ==
    {a \in DOMAIN d.applications :
        /\ d.applications[a].status = "viewed"
        /\ historyOf(d, a) # <<>>
        /\ LET last == historyOf(d, a)[Len(historyOf(d, a))]
           IN /\ last.oldStatus = "submitted"
              /\ last.newStatus = "viewed"
              /\ last.notes = classifiedNotes("generic")}

\* C35: once a generic email has moved an Application from submitted to
\* viewed, no later inbound email changes its status or creates or updates an
\* EmailThread of it, until an explicit update changes its status
C35_ViewedIsFinalForMail ==
    [][(hook'.handled = "processed")
          => \A a \in viewedByMail(db) :
                /\ db'.applications[a] = db.applications[a]
                /\ \A x \in DOMAIN db'.email_threads :
                      db'.email_threads[x].applicationId = a
                        => /\ x \in DOMAIN db.email_threads
                           /\ db'.email_threads[x] = db.email_threads[x]]_vars

\* C36: when processing an inbound email increments the message_count of an
\* EmailThread, the thread belongs to the Application the email was matched to
C36_ThreadOfMatched ==
    [][(hook'.handled = "processed" /\ hook'.matched # NoId)
          => \A x \in DOMAIN db.email_threads :
                db'.email_threads[x].messageCount > db.email_threads[x].messageCount
                  => db.email_threads[x].applicationId = hook'.matched]_vars

C38_AppliedIffSubmitted ==
    \A a \in DOMAIN db.applications :
        db.applications[a].appliedAt # NoTime
          <=> \E i \in 1..Len(db.application_history) :
                 /\ db.application_history[i].applicationId = a
                 /\ db.application_history[i].newStatus = "submitted"

\* C39: after setDefaultResume(id) the resume with that id is the only default
\* when it exists; when no resume has that id no resume is default afterwards,
\* a default set earlier being cleared.
C39_SetDefaultClears ==
    [][reply'.op = "resumes.setDefault"
          => /\ DOMAIN db'.resumes = DOMAIN db.resumes
             /\ defaultResumes(db') = {reply'.args[1]} \cap DOMAIN db.resumes]_vars

\* an unknown id has cleared the default: the only resume ever stored was
\* uploaded, hence stored as the default, and is the default no more
C39_Witness ==
    /\ reply.op = "resumes.setDefault"
    /\ reply.found = NoId
    /\ db.resume_ids = 1
    /\ hasResume(db, 1) /\ existsSync(db, 1)
    /\ defaultResumes(db) = {}

\* C40: after any sequence of processed inbound emails no two email
\* threads share the same non-null provider thread id.
C40_UniqueThreadIds ==
    \A x, y \in DOMAIN db.email_threads :
        x # y /\ db.email_threads[x].gmailThreadId # NULL
          => db.email_threads[x].gmailThreadId # db.email_threads[y].gmailThreadId

\* what does hold: no two email threads stored by the monitor share a
\* non-empty provider thread id
UniqueNonEmptyThreadIds ==
    \A x, y \in DOMAIN db.email_threads :
        x # y /\ truthy(db.email_threads[x].gmailThreadId)
          => db.email_threads[x].gmailThreadId # db.email_threads[y].gmailThreadId

====
